---- MODULE Spec2Model ----
(***************************************************************************)
(* psiflow: walkers, datasets and reference evaluation as state machines.  *)
(*                                                                         *)
(* Every deferred value of the program (a parsl AppFuture / DataFuture) is *)
(* a record in the sequence futs; a task runs (Resolve) only once all the  *)
(* futures it was given have resolved, in any order the scheduler picks.   *)
(* The driver's own calls (reset, update, quench, ...) are atomic actions  *)
(* that only create futures and re-point references.                       *)
(***************************************************************************)
EXTENDS Integers, Sequences, FiniteSets, TLC

\* ------------------------------------------------------------------ bounds
MaxFutures == 5    \* futures one walker history may create
NumData    == 2    \* geometries of the dataset a walker is seeded from
MaxSteps   == 2    \* steps one simulation may run before it ends
MaxRounds  == 2    \* propagation rounds issued for one walker
MaxWalkers == 3    \* walkers in the list given to partition
MaxFiles   == 4    \* backing stores the Dataset operations may create
MaxShuffle == 3    \* longest data of which shuffle tries every order
MaxIterations == 3 \* niterations of the learning loop
MaxRuns == 3       \* calls of learning.run on one path_output
MaxData == 2       \* FlowAtoms in the Dataset an operation is called on
MaxOps == 2        \* operations called one after the other on a Dataset
MaxTemplate == 3   \* walkers in the list given to one _simulate call
MaxQuenched == 2   \* Walkers alive at once
MaxReplicas == 2   \* nreplicas given to multiply
MaxLines == 2      \* lines of a PLUMED input
MaxObjects == 4    \* Geometry objects alive at once, NullState included

VARIABLES
    futs,      \* Seq of futures (see Future)
    start,     \* Walker.start: id of a future in futs
    state,     \* Walker.state: id of a future in futs
    counter,   \* the walker's step counter: id of a future in futs (0: none)
    rounds,    \* Seq of propagation rounds issued for the walker (see Round)
    walkers,     \* the list of Walkers given to partition
    partitions,  \* what partition returned for it: groups of list positions
    partitioned, \* whether partition has been called
    files,     \* Seq of backing stores, by path: [written, content]
    tasks,     \* Seq of the apps submitted on stores (see Task)
    datasets,  \* Seq of Dataset objects: [data_future], a path in files
    lastop,    \* the Dataset operation the driver ran last: [name, self]
    egeom,     \* the geometry the reference evaluation was called with
    eprops,    \* the properties of the reference: a tuple of names
    epc,       \* where the evaluation is: idle, pre, post, done, raised
    etext,     \* the output the external computation wrote (lines)
    eresult,   \* what the evaluation's future holds (see Returned, Raised)
    eapps,     \* the apps the evaluation has submitted, in order
    eran,      \* the apps of the evaluation that have run, in order
    aelement,  \* compute_atomic_energy: the atomic number of element
    abox,      \* compute_atomic_energy: box_size, None or a length
    acands,    \* the candidate references and their energy futures
    apc,       \* where the call is: idle, evaluating, returned, raised
    aresult,   \* the energy returned, or the name of the exception raised
    tws,       \* the list of walkers _simulate was called with
    tpc,       \* where the call is: idle, templated, ..., raised
    ttable,    \* weights_table: the header, then one row per walker
    tmap,      \* the names of hamiltonians_map, in its order
    tlog,      \* what the call has done outside the driver, in order
    lcomplete, \* the iterations whose checkpoint is in path_output
    lpc,       \* where the learning run is: idle, running, iterated
    literation, \* the iteration the run is at
    lfirst,    \* the iteration the run started from
    ldata,     \* how many geometries the run has generated
    lreturned, \* the length of the dataset the last run returned (None: none yet)
    lruns,     \* how many times run has been called
    lperformed, \* the iterations performed, in order, over all runs
    cself,     \* the FlowAtoms of the store of a Dataset, in order
    cother,    \* the FlowAtoms of the Dataset given as argument
    cfrom,     \* the operation that gave the Dataset its content
    cop,       \* the operation called last on the Dataset
    carg,      \* its argument: a flag, atomic energies or a filter
    cout,      \* what it returned: data, a value or an exception
    cn,        \* how many operations were called
    gobjs,     \* the Geometry objects alive, by reference (gobjs[1] is NullState)
    gcounter,  \* the identifier counter threaded through _assign_identifier
    gfirst,    \* the value the counter started from
    gassigned, \* the references given an identifier, in order
    gevals,    \* how many outputs were parsed
    gop,       \* the call made last on the objects (see Call)
    sgeom,     \* the Geometry that is written out
    stext,     \* what to_string returned (see to_string)
    sread,     \* what from_string made of it
    spc,       \* where the round trip is: idle, made, written, read
    qws,       \* the Walkers alive, each with its start and state geometry
    qdata,     \* the geometries of the Dataset given to quench
    qout,      \* the call made last on the walkers (see WalkerCall)
    binput,    \* plumed_input, by line: the action keyword and the CVs after ARG=
    bdata,     \* the keys of the data given to PlumedBias
    bout,      \* what the constructor did: none yet, the bias made, or the exception
    btasks     \* the apps submitted on the bias

wvars == <<futs, start, state, counter, rounds>>
pvars == <<walkers, partitions, partitioned>>
dvars == <<files, tasks, datasets, lastop>>
evars == <<egeom, eprops, epc, etext, eresult, eapps, eran>>
avars == <<aelement, abox, acands, apc, aresult>>
tvars == <<tws, tpc, ttable, tmap, tlog>>
lvars == <<lcomplete, lpc, literation, lfirst, ldata, lreturned, lruns, lperformed>>
cvars == <<cself, cother, cfrom, cop, carg, cout, cn>>
gvars == <<gobjs, gcounter, gfirst, gassigned, gevals, gop>>
svars == <<sgeom, stext, sread, spc>>
qvars == <<qws, qdata, qout>>
bvars == <<binput, bdata, bout, btasks>>
vars  == <<wvars, pvars, dvars, evars, avars, tvars, lvars, cvars, gvars, svars, qvars, bvars>>

\* what the actions of one component leave alone
NotWalker    == <<pvars, dvars, evars, avars, tvars, lvars, cvars, gvars, svars, qvars, bvars>>
NotPartition == <<wvars, dvars, evars, avars, tvars, lvars, cvars, gvars, svars, qvars, bvars>>
NotDataset   == <<wvars, pvars, evars, avars, tvars, lvars, cvars, gvars, svars, qvars, bvars>>
NotEval      == <<wvars, pvars, dvars, avars, tvars, lvars, cvars, gvars, svars, qvars, bvars>>
NotAtomic    == <<wvars, pvars, dvars, evars, tvars, lvars, cvars, gvars, svars, qvars, bvars>>
NotTemplate  == <<wvars, pvars, dvars, evars, avars, lvars, cvars, gvars, svars, qvars, bvars>>
NotLearning  == <<wvars, pvars, dvars, evars, avars, tvars, cvars, gvars, svars, qvars, bvars>>
NotContent   == <<wvars, pvars, dvars, evars, avars, tvars, lvars, gvars, svars, qvars, bvars>>
NotGeometry  == <<wvars, pvars, dvars, evars, avars, tvars, lvars, cvars, svars, qvars, bvars>>
NotString    == <<wvars, pvars, dvars, evars, avars, tvars, lvars, cvars, gvars, qvars, bvars>>
NotQuench    == <<wvars, pvars, dvars, evars, avars, tvars, lvars, cvars, gvars, svars, bvars>>
NotBias      == <<wvars, pvars, dvars, evars, avars, tvars, lvars, cvars, gvars, svars, qvars>>

\* a component no specification is about stays as constructed
IdleWalker ==
    futs = <<>> /\ start = 0 /\ state = 0 /\ counter = 0 /\ rounds = <<>>
IdlePartition ==
    walkers = <<>> /\ partitions = <<>> /\ partitioned = FALSE
NoOp == [name |-> "none", self |-> 0]
IdleDataset ==
    files = <<>> /\ tasks = <<>> /\ datasets = <<>> /\ lastop = NoOp
IdleEval ==
    /\ egeom = <<>> /\ eprops = <<>> /\ epc = "idle" /\ etext = <<>>
    /\ eresult = <<>> /\ eapps = <<>> /\ eran = <<>>
IdleAtomic ==
    /\ aelement = 0 /\ abox = <<>> /\ acands = <<>> /\ apc = "idle"
    /\ aresult = <<>>
IdleBias ==
    binput = <<>> /\ bdata = {} /\ bout = <<>> /\ btasks = <<>>
IdleQuench ==
    qws = <<>> /\ qdata = <<>> /\ qout = <<>>
IdleString ==
    sgeom = <<>> /\ stext = <<>> /\ sread = <<>> /\ spc = "idle"
IdleGeometry ==
    gobjs = <<>> /\ gcounter = 0 /\ gfirst = 0 /\ gassigned = <<>> /\ gevals = 0
    /\ gop = <<>>
IdleContent ==
    cself = <<>> /\ cother = <<>> /\ cfrom = "init" /\ cop = "none"
    /\ carg = <<>> /\ cout = <<>> /\ cn = 0
IdleLearning ==
    lcomplete = {} /\ lpc = "idle" /\ literation = 0 /\ lfirst = 0 /\ ldata = 0
    /\ lreturned = <<>> /\ lruns = 0 /\ lperformed = <<>>
IdleTemplate ==
    tws = <<>> /\ tpc = "idle" /\ ttable = <<>> /\ tmap = <<>> /\ tlog = <<>>

\* ------------------------------------------------------- walker: futures
\* A geometry is a number: 1..NumData are the dataset's geometries, and
\* Traj(g, k) is the geometry a simulation started in g has reached after k
\* steps; Traj is injective, so a geometry tells where it came from.
DataGeoms == 1..NumData
Traj(g, k) == g * (MaxSteps + 1) + k + NumData
\* SimulationOutput.status: 0 success, 1 timeout, 2 failure, 3 force exceeded
Statuses  == 0..3

\* One deferred value.  app names the task; a1..a3 are the futures passed to
\* it (0: none); lit is a literal bool passed instead of a future; once done,
\* gval is the geometry, bval the boolean, status the run status and count
\* the number of steps it holds.
Future(app, a1, a2, a3, lit) ==
    [app |-> app, a1 |-> a1, a2 |-> a2, a3 |-> a3, lit |-> lit,
     done |-> FALSE, gval |-> 0, bval |-> FALSE, status |-> 0 - 1,
     count |-> 0]

Args(f) == {f.a1, f.a2, f.a3} \ {0}

\* parsl runs an app only when every future among its arguments has resolved
ReadyToRun(i) ==
    /\ ~futs[i].done
    /\ \A a \in Args(futs[i]) : futs[a].done

update_walker_timeout_fails(st, status, strt) ==
    IF status \in {0} THEN st ELSE strt

\* _update_walker(state, status, start)
update_walker(st, status, strt) ==
    IF status \in {0, 1} THEN st ELSE strt

conditioned_reset_inverted(condition, st, strt) ==
    IF condition THEN st ELSE strt

\* _conditioned_reset(condition, state, start); deepcopy keeps the value
conditioned_reset(condition, st, strt) ==
    IF condition THEN strt ELSE st

\* sum_counters(a, b) of the walker's step counter
sum_counters(a, b) == a + b

\* the condition a conditioned_reset task receives: a literal or a future
ConditionOf(f) == IF f.a1 = 0 THEN f.lit ELSE futs[f.a1].bval

\* ------------------------------------------------------- walker: actions
NewId == Len(futs) + 1
Room(n) == Len(futs) + n <= MaxFutures

\* an external deferred boolean (e.g. an error-threshold check) is created
NewCondition ==
    /\ Room(1)
    /\ futs' = Append(futs, Future("condition", 0, 0, 0, FALSE))
    /\ UNCHANGED <<start, state, counter, rounds>>
    /\ UNCHANGED NotWalker

\* a simulation is submitted on the walker's current state; its output
\* (state, status) is one deferred SimulationOutput
Simulate ==
    /\ Room(1)
    /\ futs' = Append(futs, Future("simulate", state, 0, 0, FALSE))
    /\ UNCHANGED <<start, state, counter, rounds>>
    /\ UNCHANGED NotWalker

\* Walker.update(output)
Update(o) ==
    /\ Room(1)
    /\ futs[o].app = "simulate"
    /\ futs' = Append(futs, Future("update_walker", o, 0, start, FALSE))
    /\ state' = NewId
    /\ UNCHANGED <<start, counter, rounds>>
    /\ UNCHANGED NotWalker

\* Walker.reset(condition), condition a literal bool
ResetLiteral(b) ==
    /\ Room(1)
    /\ futs' = Append(futs, Future("conditioned_reset", 0, state, start, b))
    /\ state' = NewId
    /\ UNCHANGED <<start, counter, rounds>>
    /\ UNCHANGED NotWalker

\* Walker.reset(condition), condition an AppFuture
ResetFuture(c) ==
    /\ Room(1)
    /\ futs[c].app = "condition"
    /\ futs' = Append(futs, Future("conditioned_reset", c, state, start, FALSE))
    /\ state' = NewId
    /\ UNCHANGED <<start, counter, rounds>>
    /\ UNCHANGED NotWalker

\* quench, for one walker: start is re-seeded with a deferred dataset
\* geometry, then reset() with the default condition True
Quench ==
    /\ Room(2)
    /\ futs' = futs \o <<Future("read_dataset", 0, 0, 0, FALSE),
                         Future("conditioned_reset", 0, state, NewId, TRUE)>>
    /\ start' = NewId
    /\ state' = NewId + 1
    /\ UNCHANGED <<counter, rounds>>
    /\ UNCHANGED NotWalker

\* the scheduler runs task i
Resolve(i) ==
    /\ ReadyToRun(i)
    /\ LET f == futs[i] IN
       \/ /\ f.app = "read_dataset"
          /\ \E g \in DataGeoms :
                futs' = [futs EXCEPT ![i].done = TRUE, ![i].gval = g]
       \/ /\ f.app = "copy_app_future"
          /\ futs' = [futs EXCEPT ![i].done = TRUE, ![i].gval = futs[f.a1].gval]
       \/ /\ f.app = "condition"
          /\ \E b \in BOOLEAN :
                futs' = [futs EXCEPT ![i].done = TRUE, ![i].bval = b]
       \/ /\ f.app = "simulate"
          /\ \E k \in 1..MaxSteps, s \in Statuses :
                futs' = [futs EXCEPT ![i].done = TRUE,
                                     ![i].gval = Traj(futs[f.a1].gval, k),
                                     ![i].status = s, ![i].count = k]
       \/ /\ f.app = "sum_counters"
          /\ futs' = [futs EXCEPT ![i].done = TRUE,
                        ![i].count = sum_counters(
                            IF f.a1 = 0 THEN 0 ELSE futs[f.a1].count,
                            futs[f.a2].count)]
       \/ /\ f.app = "update_walker"
          /\ futs' = [futs EXCEPT ![i].done = TRUE,
                        ![i].gval = update_walker(futs[f.a1].gval,
                                                  futs[f.a1].status,
                                                  futs[f.a3].gval)]
       \/ /\ f.app = "conditioned_reset"
          /\ futs' = [futs EXCEPT ![i].done = TRUE,
                        ![i].gval = conditioned_reset(ConditionOf(f),
                                                      futs[f.a2].gval,
                                                      futs[f.a3].gval)]
    /\ UNCHANGED <<start, state, counter, rounds>>
    /\ UNCHANGED NotWalker

\* Walker(start, ..., state=None).__post_init__: start has resolved (result()
\* blocks); state is a pending copy_app_future(start) when none was given,
\* and else the deferred geometry the caller passed
InitWalker ==
    /\ \E g \in DataGeoms :
       \E given \in BOOLEAN :
          futs = <<[Future("read_dataset", 0, 0, 0, FALSE)
                        EXCEPT !.done = TRUE, !.gval = g],
                   IF given THEN Future("read_dataset", 0, 0, 0, FALSE)
                            ELSE Future("copy_app_future", 1, 0, 0, FALSE)>>
    /\ start = 1
    /\ state = 2
    /\ counter = 0
    /\ rounds = <<>>
    /\ IdlePartition
    /\ IdleDataset
    /\ IdleEval
    /\ IdleAtomic /\ IdleBias /\ IdleQuench /\ IdleString /\ IdleGeometry /\ IdleContent /\ IdleLearning /\ IdleTemplate

NextWalker ==
    \/ NewCondition
    \/ Simulate
    \/ \E o \in 1..Len(futs) : Update(o)
    \/ \E b \in BOOLEAN : ResetLiteral(b)
    \/ \E c \in 1..Len(futs) : ResetFuture(c)
    \/ Quench
    \/ \E i \in 1..Len(futs) : Resolve(i)

SpecWalker == InitWalker /\ [][NextWalker]_vars

\* ------------------------------------------------ walker: chained rounds
\* One propagation round (generate(name, walker, model, ..., *wait_for_it)).
\* Its body runs once the round it was made to wait for has delivered its
\* result; the body first submits the simulation on the walker's state
\* (_propagate) and then writes the walker's state and counter (update).
\*   dep: the round waited for (0: none); pc: issued, running, done;
\*   sim: the simulation's future; written: the state future it wrote
Round(dep) == [dep |-> dep, pc |-> "issued", sim |-> 0, written |-> 0]

\* the round has delivered its result
Delivered(r) == rounds[r].pc = "done" /\ futs[rounds[r].written].done

_propagate_from_start == start

\* DynamicWalker._propagate: the future the simulation is submitted on
_propagate == state

\* generate(..., wait_for_it): every round after the first is made to wait
\* for the round issued before it
IssueRound(d) ==
    /\ Len(rounds) < MaxRounds
    /\ rounds' = Append(rounds, Round(d))
    /\ UNCHANGED <<futs, start, state, counter>>
    /\ UNCHANGED NotWalker

RoundBegin(r) ==
    /\ rounds[r].pc = "issued"
    /\ IF rounds[r].dep = 0 THEN TRUE ELSE Delivered(rounds[r].dep)
    /\ futs' = Append(futs, Future("simulate", _propagate, 0, 0, FALSE))
    /\ rounds' = [rounds EXCEPT ![r].pc = "running", ![r].sim = NewId]
    /\ UNCHANGED <<start, state, counter>>
    /\ UNCHANGED NotWalker

RoundEnd(r) ==
    /\ rounds[r].pc = "running"
    /\ futs' = futs \o
          <<Future("update_walker", rounds[r].sim, 0, start, FALSE),
            Future("sum_counters", counter, rounds[r].sim, 0, FALSE)>>
    /\ state' = NewId
    /\ counter' = NewId + 1
    /\ rounds' = [rounds EXCEPT ![r].pc = "done", ![r].written = NewId]
    /\ UNCHANGED start
    /\ UNCHANGED NotWalker

NextRounds ==
    \/ \E d \in {Len(rounds)} : IssueRound(d)
    \/ \E r \in 1..Len(rounds) : RoundBegin(r)
    \/ \E r \in 1..Len(rounds) : RoundEnd(r)
    \/ \E i \in 1..Len(futs) : Resolve(i)

SpecRounds == InitWalker /\ [][NextRounds]_vars

\* ------------------------------------------------------ walker: claims
IsOk(status) == status \in {0, 1}
Ids(app) == {i \in 1..Len(futs) : futs[i].app = app}

\* C1: Walker.update(output) points the walker's state at a deferred value
\* that resolves to the output's final geometry when the run status is 0
\* (success) or 1 (timeout) and to the geometry of the walker's start (the
\* start it had when update was called) for every other status; update and
\* the task it submits leave start, and the value start holds, unchanged.
C1_Update ==
    [][ /\ \A o \in 1..Len(futs) : Update(o) =>
              /\ start' = start
              /\ futs'[start] = futs[start]
              /\ state' = Len(futs')
              /\ futs'[state'].app = "update_walker"
              /\ futs'[state'].a1 = o
              /\ futs'[state'].a3 = start
        /\ \A i \in Ids("update_walker") : Resolve(i) =>
              LET o == futs[futs[i].a1]
                  s == futs[futs[i].a3]
              IN  /\ o.done /\ s.done
                  /\ IsOk(o.status) => futs'[i].gval = o.gval
                  /\ ~IsOk(o.status) => futs'[i].gval = s.gval
                  /\ futs'[futs[i].a3] = s
                  /\ start' = start
      ]_vars

\* C1 witness: the walker's state is a resolved update of a run that failed
\* hard, and it holds start's geometry, not the run's final geometry
C1_Witness ==
    /\ futs[state].app = "update_walker"
    /\ futs[state].done
    /\ futs[futs[state].a1].status \in {2, 3}
    /\ futs[state].gval = futs[start].gval
    /\ futs[state].gval # futs[futs[state].a1].gval

\* C2: Walker.reset(condition) never waits for condition: it can be called
\* while the condition is still pending; it leaves start unchanged and points
\* state at a deferred value that resolves only after the condition, the
\* previous state and start have resolved, to start's geometry when the
\* condition is true and to the previous state's geometry when it is false.
C2_ResetInv ==
    /\ \A c \in Ids("condition") : Room(1) => ENABLED ResetFuture(c)
    /\ \A i \in Ids("conditioned_reset") : futs[i].done =>
          LET f == futs[i] IN
          /\ f.a1 # 0 => futs[f.a1].done
          /\ futs[f.a2].done
          /\ futs[f.a3].done
          /\ ConditionOf(f) => f.gval = futs[f.a3].gval
          /\ ~ConditionOf(f) => f.gval = futs[f.a2].gval

C2_Reset ==
    /\ []C2_ResetInv
    /\ [][ \A c \in 0..Len(futs), b \in BOOLEAN :
             (IF c = 0 THEN ResetLiteral(b) ELSE ResetFuture(c)) =>
                /\ start' = start
                /\ futs'[start] = futs[start]
                /\ state' = Len(futs')
                /\ ~futs'[state'].done
                /\ futs'[state'].a1 = c
                /\ futs'[state'].a2 = state
                /\ futs'[state'].a3 = start
          ]_vars

\* C2 witness: a reset was called on a condition that was still pending (a
\* later reset is pending on it still), and an earlier-resolved reset whose
\* condition came out true overwrote a different state with start
C2_Witness ==
    \E i \in Ids("conditioned_reset") :
        /\ futs[i].a1 # 0
        /\ futs[i].done
        /\ futs[futs[i].a1].bval
        /\ futs[i].gval = futs[futs[i].a3].gval
        /\ futs[i].gval # futs[futs[i].a2].gval
        /\ state = i

\* the geometry round r must leave in the walker's state, from the outcomes
\* (steps run, status) of rounds 1..r alone
RECURSIVE ExpectedState(_)
ExpectedState(r) ==
    IF r = 0 THEN futs[2].gval
    ELSE LET s == futs[rounds[r].sim] IN
         IF IsOk(s.status) THEN Traj(ExpectedState(r - 1), s.count)
                           ELSE futs[start].gval

RECURSIVE ExpectedCount(_)
ExpectedCount(r) ==
    IF r = 0 THEN 0 ELSE ExpectedCount(r - 1) + futs[rounds[r].sim].count

AllDone == /\ \A r \in 1..Len(rounds) : rounds[r].pc = "done"
           /\ \A i \in 1..Len(futs) : futs[i].done

None == <<>>
Some(x) == <<x>>

\* A Walker, by the fields is_similar and the ensemble read.  timestep is in
\* tenths of a femtosecond; coupling is None or the name of a Coupling.
BaseWalker ==
    [hamiltonian |-> "h1", temperature |-> Some(300), pressure |-> None,
     nbeads |-> 1, periodic |-> TRUE, timestep |-> 5, coupling |-> None]

\* the walkers a list is built from: the default walker and walkers that
\* differ from it in the set points, the bead count, the coupling, the
\* periodicity, the timestep and the hamiltonian
WalkerPool ==
    { BaseWalker,
      [BaseWalker EXCEPT !.temperature = Some(600)],
      [BaseWalker EXCEPT !.temperature = None],
      [BaseWalker EXCEPT !.pressure = Some(0)],
      [BaseWalker EXCEPT !.pressure = Some(100), !.temperature = Some(600),
                         !.hamiltonian = "h2"],
      [BaseWalker EXCEPT !.temperature = None, !.pressure = Some(0)],
      [BaseWalker EXCEPT !.nbeads = 4, !.hamiltonian = "h2"],
      [BaseWalker EXCEPT !.nbeads = 8],
      [BaseWalker EXCEPT !.nbeads = 8, !.timestep = 10],
      [BaseWalker EXCEPT !.coupling = Some("c1")],
      [BaseWalker EXCEPT !.periodic = FALSE],
      [BaseWalker EXCEPT !.timestep = 10],
      [BaseWalker EXCEPT !.hamiltonian = "h2"] }

\* Walker.pimd
pimd(w) == w.nbeads # 1

is_similar_or(w0, w1) ==
    LET similar_T == (w0.temperature = None) = (w1.temperature = None)
        similar_P == (w0.pressure = None) = (w1.pressure = None)
        similar_pimd == pimd(w0) = pimd(w1)
        similar_coupling == w0.coupling = w1.coupling
        similar_pbc == w0.periodic = w1.periodic
        similar_timestep == w0.timestep = w1.timestep
    IN  /\ (similar_T \/ similar_P)
        /\ similar_pimd
        /\ similar_coupling
        /\ similar_pbc
        /\ similar_timestep

is_similar_no_timestep(w0, w1) ==
    LET similar_T == (w0.temperature = None) = (w1.temperature = None)
        similar_P == (w0.pressure = None) = (w1.pressure = None)
        similar_pimd == pimd(w0) = pimd(w1)
        similar_coupling == w0.coupling = w1.coupling
        similar_pbc == w0.periodic = w1.periodic
    IN  /\ similar_T
        /\ similar_P
        /\ similar_pimd
        /\ similar_coupling
        /\ similar_pbc

\* Walker.is_similar(w0, w1)
is_similar(w0, w1) ==
    LET similar_T == (w0.temperature = None) = (w1.temperature = None)
        similar_P == (w0.pressure = None) = (w1.pressure = None)
        similar_pimd == pimd(w0) = pimd(w1)
        similar_coupling == w0.coupling = w1.coupling
        similar_pbc == w0.periodic = w1.periodic
        similar_timestep == w0.timestep = w1.timestep
    IN  /\ similar_T
        /\ similar_P
        /\ similar_pimd
        /\ similar_coupling
        /\ similar_pbc
        /\ similar_timestep

\* partition(walkers), from walker i on, with the groups built so far.  A
\* group lists positions of the input list.  The inner loop has no break:
\* the walker is appended to every group whose first walker it is similar to.
RECURSIVE partition_loop(_, _, _)
partition_loop(ws, i, parts) ==
    IF i > Len(ws) THEN parts
    ELSE LET similar(j) == is_similar(ws[i], ws[parts[j][1]])
             appended == [j \in 1..Len(parts) |->
                            IF similar(j) THEN Append(parts[j], i)
                                          ELSE parts[j]]
             found == \E j \in 1..Len(parts) : similar(j)
         IN  partition_loop(ws, i + 1,
                            IF found THEN appended
                                     ELSE Append(parts, <<i>>))

partition(ws) == partition_loop(ws, 1, <<>>)

\* the caller puts one more walker in the list
AddWalker(w) ==
    /\ ~partitioned
    /\ Len(walkers) < MaxWalkers
    /\ walkers' = Append(walkers, w)
    /\ UNCHANGED <<partitions, partitioned>>
    /\ UNCHANGED NotPartition

\* partitions = partition(walkers)
Partition ==
    /\ ~partitioned
    /\ partitions' = partition(walkers)
    /\ partitioned' = TRUE
    /\ UNCHANGED walkers
    /\ UNCHANGED NotPartition

InitPartition ==
    IdlePartition /\ IdleWalker /\ IdleDataset /\ IdleEval /\ IdleAtomic /\ IdleBias /\ IdleQuench /\ IdleString /\ IdleGeometry /\ IdleContent /\ IdleLearning /\ IdleTemplate

NextPartition ==
    \/ \E w \in WalkerPool : AddWalker(w)
    \/ Partition

SpecPartition == InitPartition /\ [][NextPartition]_vars

\* ---------------------------------------------------- partition: claims
\* the places (group, position in the group) where list position i occurs
PlacesOf(i) ==
    {<<j, k>> \in (1..Len(partitions)) \X (1..MaxWalkers + 1) :
        k <= Len(partitions[j]) /\ partitions[j][k] = i}

RECURSIVE SumLen(_, _)
SumLen(parts, j) == IF j = 0 THEN 0 ELSE Len(parts[j]) + SumLen(parts, j - 1)

\* C3: partition(walkers) places every walker of the list in exactly one
\* group, exactly once; no group is empty and the group sizes sum to
\* len(walkers).
C3_Partition ==
    partitioned =>
        /\ \A i \in 1..Len(walkers) : Cardinality(PlacesOf(i)) = 1
        /\ \A j \in 1..Len(partitions) : Len(partitions[j]) > 0
        /\ SumLen(partitions, Len(partitions)) = Len(walkers)

\* C3 witness: three walkers in two groups, the third joining the group of
\* the first
C3_Witness ==
    /\ partitioned
    /\ Len(walkers) = 3
    /\ partitions = <<<<1, 3>>, <<2>>>>

SameGroup(i, j) ==
    \E g \in 1..Len(partitions) :
        /\ \E k \in 1..Len(partitions[g]) : partitions[g][k] = i
        /\ \E k \in 1..Len(partitions[g]) : partitions[g][k] = j

\* what the walkers of one group agree on
Compatible(w0, w1) ==
    /\ (w0.temperature = None) <=> (w1.temperature = None)
    /\ (w0.pressure = None) <=> (w1.pressure = None)
    /\ (w0.nbeads = 1) <=> (w1.nbeads = 1)
    /\ w0.coupling = w1.coupling
    /\ w0.periodic = w1.periodic
    /\ w0.timestep = w1.timestep

\* C4: two walkers of the list are in the same group if and only if they
\* agree on whether temperature is defined, on whether pressure is defined,
\* on being path-integral (nbeads # 1), on coupling, on periodicity and on
\* timestep; the hamiltonian, the values of temperature and pressure and the
\* bead count among nbeads > 1 play no part.
C4_Groups ==
    partitioned =>
        \A i, j \in 1..Len(walkers) :
            i # j => (SameGroup(i, j) <=> Compatible(walkers[i], walkers[j]))

\* C4 witness: walkers that differ in hamiltonian, set-point values and bead
\* count share a group, and a walker that differs in timestep alone does not
C4_Witness ==
    /\ partitioned
    /\ Len(walkers) = 3
    /\ walkers[1].nbeads = 4
    /\ walkers[2].nbeads = 8
    /\ walkers[1].hamiltonian # walkers[2].hamiltonian
    /\ SameGroup(1, 2)
    /\ walkers[3] = [walkers[2] EXCEPT !.timestep = 10]
    /\ ~SameGroup(2, 3)

\* -------------------------------------------------------------- dataset
\* One FlowAtoms of a store: which structure it is and the labels its info
\* holds ("none", "energy", or "formation": energy and formation_energy).
Atoms(id, label) == [id |-> id, label |-> label]

\* the lists of atoms a Dataset is constructed from
AtomsLists ==
    { <<>>,
      <<Atoms(1, "energy"), Atoms(2, "energy")>>,
      <<Atoms(1, "none"), Atoms(2, "energy")>>,
      <<Atoms(2, "formation")>> }

\* the index lists get is called with (0-based, as in the code)
IndexLists == { <<>>, <<1, 0>>, <<0, 0>>, <<2>> }

\* the orders shuffle may produce for range(n): every permutation of a
\* short range, the identity and the reversal of a longer one
Shuffles(n) ==
    IF n <= MaxShuffle
    THEN {p \in [1..n -> 0..(n - 1)] : \A i, j \in 1..n : p[i] = p[j] => i = j}
    ELSE {[i \in 1..n |-> i - 1], [i \in 1..n |-> n - i]}

\* An app submitted on stores: in1, in2 are the stores it reads (0: none),
\* out the store it writes; data, indices and covered are its other
\* arguments; status is "pending", "done" or "failed".
Task(app, in1, in2, out, data, indices, covered) ==
    [app |-> app, in1 |-> in1, in2 |-> in2, out |-> out, data |-> data,
     indices |-> indices, covered |-> covered, status |-> "pending"]

\* context.new_file: a path no store has
new_file == Len(files) + 1
NoFile == [written |-> FALSE, content |-> <<>>]

\* FlowAtoms.reset
reset_atoms(a) == [a EXCEPT !.label = "none"]

\* read_dataset(indices, inputs=[f]): the atoms at the indices, in order;
\* an index outside the data raises
read_dataset_ok(content, indices) ==
    \A k \in 1..Len(indices) : indices[k] < Len(content)
read_dataset(content, indices) ==
    [k \in 1..Len(indices) |-> content[indices[k] + 1]]

\* reset_dataset
reset_dataset(content) == [k \in 1..Len(content) |-> reset_atoms(content[k])]

\* join_dataset
join_dataset_second_first(c1, c2) == c2 \o c1
join_dataset(c1, c2) == c1 \o c2

\* insert_formation_energy: raises when formation_energy is present, when an
\* element has no atomic energy (covered is false) or energy is missing
insert_formation_energy_ok(content, covered) ==
    \A k \in 1..Len(content) : content[k].label = "energy" /\ covered
insert_formation_energy(content) ==
    [k \in 1..Len(content) |-> [content[k] EXCEPT !.label = "formation"]]

\* get_info_keys: the keys every atoms of the data has; data[0] raises on
\* empty data
get_info_keys_ok(content) == Len(content) > 0
has_formation_energy(content) ==
    \A k \in 1..Len(content) : content[k].label = "formation"

\* Dataset(None, data_future=f): copy_data_future of f to a new store; n is
\* the number of stores the caller created before
Dataset_init(f, n) ==
    Task("copy_data_future", f, 0, new_file + n, <<>>, <<>>, FALSE)

RoomFiles(n) == Len(files) + n <= MaxFiles
IsDataset(d) == d \in 1..Len(datasets)
Written(d) == files[datasets[d].data_future].written

\* an operation that returns a new Dataset: one app writing a new store,
\* then Dataset(None, data_future)
NewDatasetFrom(name, d, task) ==
    /\ RoomFiles(2)
    /\ files' = files \o <<NoFile, NoFile>>
    /\ tasks' = tasks \o <<task, Dataset_init(task.out, 1)>>
    /\ datasets' = Append(datasets, [data_future |-> new_file + 1])
    /\ lastop' = [name |-> name, self |-> d]
    /\ UNCHANGED NotDataset

\* Dataset(atoms_list): save_dataset of the list to a new store
NewDataset(c) ==
    /\ RoomFiles(1)
    /\ files' = Append(files, NoFile)
    /\ tasks' = Append(tasks,
                       Task("save_dataset", 0, 0, new_file, c, <<>>, FALSE))
    /\ datasets' = Append(datasets, [data_future |-> new_file])
    /\ lastop' = [name |-> "init", self |-> 0]
    /\ UNCHANGED NotDataset

\* datasets[d].get(indices=ix)
Get(d, ix) ==
    /\ IsDataset(d)
    /\ NewDatasetFrom("get", d,
          Task("read_dataset", datasets[d].data_future, 0, new_file,
               <<>>, ix, FALSE))

\* datasets[d].shuffle(): length().result() blocks, then get(indices=perm)
Shuffle(d) ==
    /\ IsDataset(d)
    /\ Written(d)
    /\ \E perm \in Shuffles(Len(files[datasets[d].data_future].content)) :
          NewDatasetFrom("shuffle", d,
            Task("read_dataset", datasets[d].data_future, 0, new_file,
                 <<>>, perm, FALSE))

\* datasets[d] + datasets[e]
Add(d, e) ==
    /\ IsDataset(d) /\ IsDataset(e)
    /\ NewDatasetFrom("add", d,
          Task("join_dataset", datasets[d].data_future,
               datasets[e].data_future, new_file, <<>>, <<>>, FALSE))

append_in_place(self_data_future, fresh) == self_data_future

\* the store append's join_dataset writes: outputs=[context.new_file(...)]
append_outputs(self_data_future, fresh) == fresh

\* datasets[d].append(datasets[e])
DatasetAppend(d, e) ==
    /\ IsDataset(d) /\ IsDataset(e)
    /\ RoomFiles(1)
    /\ LET out == append_outputs(datasets[d].data_future, new_file) IN
        /\ files' = Append(files, NoFile)
        /\ tasks' = Append(tasks,
              Task("join_dataset", datasets[d].data_future,
                   datasets[e].data_future, out, <<>>, <<>>, FALSE))
        /\ datasets' = [datasets EXCEPT ![d].data_future = out]
    /\ lastop' = [name |-> "append", self |-> d]
    /\ UNCHANGED NotDataset

\* datasets[d].reset()
DatasetReset(d) ==
    /\ IsDataset(d)
    /\ NewDatasetFrom("reset", d,
          Task("reset_dataset", datasets[d].data_future, 0, new_file,
               <<>>, <<>>, FALSE))

\* datasets[d].set_formation_energy(**atomic_energies): info_keys().result()
\* blocks, and the call raises when formation_energy is among the keys (or
\* the data is empty); covered tells whether the energies cover the elements
SetFormationEnergy(d, covered) ==
    /\ IsDataset(d)
    /\ Written(d)
    /\ get_info_keys_ok(files[datasets[d].data_future].content)
    /\ ~has_formation_energy(files[datasets[d].data_future].content)
    /\ NewDatasetFrom("set_formation_energy", d,
          Task("insert_formation_energy", datasets[d].data_future, 0,
               new_file, <<>>, <<>>, covered))

\* the stores task t reads have been written
InputsWritten(t) ==
    /\ IF tasks[t].in1 = 0 THEN TRUE ELSE files[tasks[t].in1].written
    /\ IF tasks[t].in2 = 0 THEN TRUE ELSE files[tasks[t].in2].written

\* what task t writes to its output store; <<FALSE>> when it raises
Output(t) ==
    LET k == tasks[t]
        c1 == IF k.in1 = 0 THEN <<>> ELSE files[k.in1].content
        c2 == IF k.in2 = 0 THEN <<>> ELSE files[k.in2].content
    IN  CASE k.app = "save_dataset" -> <<TRUE, k.data>>
          [] k.app = "copy_data_future" -> <<TRUE, c1>>
          [] k.app = "read_dataset" ->
                IF read_dataset_ok(c1, k.indices)
                THEN <<TRUE, read_dataset(c1, k.indices)>> ELSE <<FALSE>>
          [] k.app = "join_dataset" -> <<TRUE, join_dataset(c1, c2)>>
          [] k.app = "reset_dataset" -> <<TRUE, reset_dataset(c1)>>
          [] k.app = "insert_formation_energy" ->
                IF insert_formation_energy_ok(c1, k.covered)
                THEN <<TRUE, insert_formation_energy(c1)>> ELSE <<FALSE>>

\* the scheduler runs task t, once its input stores have been written
Execute(t) ==
    /\ tasks[t].status = "pending"
    /\ InputsWritten(t)
    /\ IF Output(t)[1]
       THEN /\ files' = [files EXCEPT ![tasks[t].out] =
                            [written |-> TRUE, content |-> Output(t)[2]]]
            /\ tasks' = [tasks EXCEPT ![t].status = "done"]
       ELSE /\ tasks' = [tasks EXCEPT ![t].status = "failed"]
            /\ UNCHANGED files
    /\ lastop' = [name |-> "execute", self |-> 0]
    /\ UNCHANGED datasets
    /\ UNCHANGED NotDataset

InitDataset ==
    /\ \E c \in AtomsLists :
          tasks = <<Task("save_dataset", 0, 0, 1, c, <<>>, FALSE)>>
    /\ files = <<NoFile>>
    /\ datasets = <<[data_future |-> 1]>>
    /\ lastop = [name |-> "init", self |-> 0]
    /\ IdleWalker
    /\ IdlePartition
    /\ IdleEval
    /\ IdleAtomic /\ IdleBias /\ IdleQuench /\ IdleString /\ IdleGeometry /\ IdleContent /\ IdleLearning /\ IdleTemplate

NextDataset ==
    \/ \E c \in AtomsLists : NewDataset(c)
    \/ \E d \in 1..Len(datasets), ix \in IndexLists : Get(d, ix)
    \/ \E d \in 1..Len(datasets) : Shuffle(d)
    \/ \E d, e \in 1..Len(datasets) : Add(d, e)
    \/ \E d, e \in 1..Len(datasets) : DatasetAppend(d, e)
    \/ \E d \in 1..Len(datasets) : DatasetReset(d)
    \/ \E d \in 1..Len(datasets), covered \in BOOLEAN :
            SetFormationEnergy(d, covered)
    \/ \E t \in 1..Len(tasks) : Execute(t)

SpecDataset == InitDataset /\ [][NextDataset]_vars

\* ------------------------------------------------------ dataset: claims
\* C6: no Dataset operation and no app it submits modifies a store once it
\* has been written; every app an operation submits writes a store created
\* by that operation; every operation except append leaves every existing
\* Dataset's store reference unchanged, and append re-points only its
\* receiver, to the store created for the concatenation.
C6_Stores ==
    [][ /\ \A f \in 1..Len(files) :
            files[f].written => files'[f] = files[f]
        /\ \A t \in (Len(tasks) + 1)..Len(tasks') :
            tasks'[t].out > Len(files)
        /\ \A d \in 1..Len(datasets) :
            \/ datasets'[d] = datasets[d]
            \/ /\ lastop' = [name |-> "append", self |-> d]
               /\ datasets'[d].data_future > Len(files)
      ]_vars

\* C6 witness: an append has been carried out on a written receiver: the
\* receiver points to the concatenation in a new store, and the receiver's
\* old store and the argument's store still hold what they held
C6_Witness ==
    \E t \in 1..Len(tasks) :
        /\ tasks[t].app = "join_dataset"
        /\ tasks[t].status = "done"
        /\ datasets[1].data_future = tasks[t].out
        /\ tasks[t].in1 = 1
        /\ Len(datasets) > 1
        /\ tasks[t].in2 = datasets[2].data_future
        /\ Len(files[1].content) > 0
        /\ Len(files[tasks[t].in2].content) > 0
        /\ files[tasks[t].out].content
              = files[1].content \o files[tasks[t].in2].content

\* ------------------------------------------------------------- geometry
\* Lengths are in units of 1e-4 Angstrom; energies in units of 10 eV; the
\* numbers CP2K prints for energy and forces in units of 10 a.u.
\* A Geometry: per-atom numbers, positions (x, y, z) and forces (<<>>: NaN),
\* the cell by its box length (0: all-zero cell), the labels energy,
\* stress, stdout and identifier, and the order parameters.
Geometry(numbers, positions, cell) ==
    [numbers |-> numbers, positions |-> positions, forces |-> <<>>,
     cell |-> cell, energy |-> None, stress |-> None, stdout |-> None,
     identifier |-> None, order |-> <<>>]

\* Geometry.from_data(np.zeros(1), np.zeros((1, 3)), None)
new_nullstate == Geometry(<<0>>, << <<0, 0, 0>> >>, 0)
NullState == new_nullstate

\* Geometry.periodic: np.any(self.cell)
periodic(g) == g.cell # 0

abs(x) == IF x < 0 THEN 0 - x ELSE x

\* numpy's default relative tolerance, 1e-5, as its inverse
RtolInv == 100000
\* atol=1e-2 Angstrom
Atol == 100

\* np.isclose(a, b, atol=atol): |a - b| <= atol + rtol * |b|
isclose(a, b, atol) == abs(a - b) <= atol + (abs(b) \div RtolInv)

\* np.allclose on two (natoms, 3) arrays of equal shape
allclose(p, q, atol) ==
    \A j \in 1..Len(p) : \A c \in 1..3 : isclose(p[j][c], q[j][c], atol)

\* an equality that compares the positions and the cell only
Geometry_eq_without_numbers(g, other) ==
    IF Len(g.numbers) # Len(other.numbers) \/ periodic(g) # periodic(other)
    THEN FALSE
    ELSE /\ allclose(g.positions, other.positions, 0)
         /\ isclose(g.cell, other.cell, 0)

\* Geometry.__eq__
Geometry_eq(g, other) ==
    IF Len(g.numbers) # Len(other.numbers) \/ periodic(g) # periodic(other)
    THEN FALSE
    ELSE /\ \A j \in 1..Len(g.numbers) :
                isclose(g.numbers[j], other.numbers[j], 0)
         /\ allclose(g.positions, other.positions, 0)
         /\ isclose(g.cell, other.cell, 0)

\* ------------------------------------------------- CP2K output: parsing
\* A token of a line: <<v>> when float(token) is v, <<>> when float(token)
\* raises ValueError (a word, or the *** CP2K prints on overflow).
Num(v) == <<v>>
Word == <<>>
IsFloat(tok) == tok # Word

\* A line of the output: head tells which of the searched prefixes the
\* stripped line starts with ("" for none), toks are its tokens after it.
Line(head, toks) == [head |-> head, toks |-> toks]
CoordHeader  == Line("MODULE QUICKSTEP: ATOMIC COORDINATES IN ANGSTROM", <<>>)
ForcesHeader == Line("ATOMIC FORCES in [a.u.]", <<>>)
EnergyPrefix == "ENERGY| Total FORCE_EVAL ( QS ) energy [a.u.]"
Filler == Line("", <<>>)

\* ase.units.Ha and Ha / Bohr, between the units above
Ha == 27
HaPerBohr == 51

\* the positions (1-based) of the lines that start with head
LinesWith(text, head) == {i \in 1..Len(text) : text[i].head = head}
Last(S) == CHOOSE i \in S : \A k \in S : k <= i

\* all_lines[i + skip : i + skip + natoms] with skip = 3, for the header at
\* 1-based position h
BlockAfter(text, h, natoms) ==
    SubSeq(text, h + 3, IF h + 2 + natoms <= Len(text)
                        THEN h + 2 + natoms ELSE Len(text))

\* line.split()[lo:hi], Python slice of the tokens of an atom line
Columns(line, lo, hi) ==
    SubSeq(line.toks, lo + 1, IF hi <= Len(line.toks) THEN hi
                              ELSE Len(line.toks))

\* row[j, :] = np.array([float(f) for f in cols]) succeeds: every token is
\* a float and there are three of them (else ValueError, from float or from
\* the assignment of a shorter array)
RowOk(cols) == Len(cols) = 3 /\ \A c \in 1..3 : IsFloat(cols[c])
Row(cols) == <<cols[1][1], cols[2][1], cols[3][1]>>

\* what a call leaves: a returned geometry, or the exception it raised
Returned(g) == [raised |-> "", geom |-> g]
Raised(e) == [raised |-> e, geom |-> NullState]

\* float(line.split()[-1]) succeeds for an energy line
EnergyOk(line) == Len(line.toks) > 0 /\ IsFloat(line.toks[Len(line.toks)])

\* parse_cp2k_output, the forces part: geometry already holds the energy
parse_forces(text, geometry) ==
    LET natoms == Len(geometry.numbers)
        found == LinesWith(text, ForcesHeader.head)
        lines == BlockAfter(text, Last(found), natoms)
    IN  IF found = {} THEN Returned(NullState)
        ELSE IF Len(lines) # natoms THEN Raised("AssertionError")
        ELSE IF \E j \in 1..natoms : ~RowOk(Columns(lines[j], 3, 6))
             THEN Raised("ValueError")
        ELSE Returned([geometry EXCEPT !.stress = None, !.forces =
                [j \in 1..natoms |->
                    [c \in 1..3 |->
                        Row(Columns(lines[j], 3, 6))[c] * HaPerBohr]]])

\* parse_cp2k_output, from the energy on: the coordinates have been checked
parse_energy(text, properties, geometry) ==
    LET found == LinesWith(text, EnergyPrefix)
    IN  IF \E i \in found : ~EnergyOk(text[i]) THEN Raised("ValueError")
        ELSE IF found = {} THEN Returned(NullState)
        ELSE LET line == text[Last(found)]
                 energy == line.toks[Len(line.toks)][1] * Ha
                 labelled == [geometry EXCEPT !.energy = Some(energy),
                                              !.forces = <<>>]
             IN  IF "forces" \in {properties[k] : k \in 1..Len(properties)}
                 THEN parse_forces(text, labelled)
                 ELSE Returned([labelled EXCEPT !.stress = None])

\* parse_cp2k_output(cp2k_output_str, properties, geometry)
parse_cp2k_output(text, properties, geometry) ==
    LET natoms == Len(geometry.numbers)
        found == LinesWith(text, CoordHeader.head)
        lines == BlockAfter(text, Last(found), natoms)
        positions == [j \in 1..natoms |-> Row(Columns(lines[j], 4, 7))]
    IN  IF found = {} THEN Returned(NullState)
        ELSE IF Len(lines) # natoms THEN Raised("AssertionError")
        ELSE IF \E j \in 1..natoms : ~RowOk(Columns(lines[j], 4, 7))
             THEN Returned(NullState)
        ELSE IF ~allclose(geometry.positions, positions, Atol)
             THEN Raised("AssertionError")
        ELSE parse_energy(text, properties, geometry)

\* cp2k_singlepoint_post(geometry, properties, inputs=[stdout, ...]); path
\* is inputs[0], text what the file holds
cp2k_singlepoint_post(geometry, properties, path, text) ==
    IF Geometry_eq(geometry, NullState) THEN Returned(NullState)
    ELSE LET parsed == parse_cp2k_output(text, properties, geometry)
         IN  IF parsed.raised # "" THEN parsed
             ELSE IF ~Geometry_eq(parsed.geom, NullState)
                  THEN Returned([parsed.geom EXCEPT !.stdout = Some(path)])
             ELSE Returned([new_nullstate EXCEPT !.stdout = Some(path)])

\* ------------------------------------------------ CP2K output: the texts
\* the atom line CP2K prints in the coordinate block: atom, kind, element,
\* atomic number, x, y, z, Z(eff), mass
CoordLine(j, number, pos) ==
    Line("", <<Num(j), Num(1), Word, Num(number),
               Num(pos[1]), Num(pos[2]), Num(pos[3]), Num(number), Num(1)>>)

\* the atom line of the forces block: atom, kind, element, fx, fy, fz
ForceLine(j) == Line("", <<Num(j), Num(1), Word, Num(1), Num(0 - 1), Num(0)>>)

\* the coordinate block CP2K may print for geometry g: the positions as
\* given ("good"), the last atom moved by 0.005 A ("near"), by 0.015 A
\* ("off") or by 0.0105 A in z ("over"), a *** for a coordinate ("stars"),
\* a cut atom line ("short"), an atom line less ("fewer"), or no block
CoordVariants == {"good", "near", "off", "over", "stars", "short", "fewer",
                  "absent"}
CoordBlock(g, variant) ==
    LET n == Len(g.numbers)
        shift == CASE variant = "near" -> <<50, 0, 0>>
                   [] variant = "off" -> <<150, 0, 0>>
                   [] variant = "over" -> <<0, 0, 105>>
                   [] OTHER -> <<0, 0, 0>>
        moved(j) == IF j = n
                    THEN [c \in 1..3 |-> g.positions[j][c] + shift[c]]
                    ELSE g.positions[j]
        line(j) == CoordLine(j, g.numbers[j], moved(j))
        spoilt(j) ==
            IF j < n THEN line(j)
            ELSE CASE variant = "stars" ->
                        [line(j) EXCEPT !.toks = [line(j).toks EXCEPT ![6] = Word]]
                   [] variant = "short" ->
                        [line(j) EXCEPT !.toks = SubSeq(line(j).toks, 1, 6)]
                   [] OTHER -> line(j)
        shown == IF variant = "fewer" THEN n - 1 ELSE n
    IN  IF variant = "absent" THEN <<>>
        ELSE <<CoordHeader, Filler, Filler>> \o [j \in 1..shown |-> spoilt(j)]

EnergyVariants == {"good", "stars", "absent"}
EnergyLine(v) == Line(EnergyPrefix, <<Num(v)>>)
EnergyPart(variant) ==
    CASE variant = "good" -> <<EnergyLine(0 - 2)>>
      [] variant = "stars" -> <<Line(EnergyPrefix, <<Word>>)>>
      [] OTHER -> <<>>

\* the forces block: complete ("good"), with a *** ("stars"), cut off by
\* the end of the output ("truncated"), or not printed
ForcesVariants == {"good", "stars", "truncated", "absent"}
ForcesPart(g, variant) ==
    LET n == Len(g.numbers)
        spoilt(j) ==
            IF j = n /\ variant = "stars"
            THEN [ForceLine(j) EXCEPT !.toks = [ForceLine(j).toks EXCEPT ![5] = Word]]
            ELSE ForceLine(j)
        shown == IF variant = "truncated" THEN n - 1 ELSE n
    IN  IF variant = "absent" THEN <<>>
        ELSE <<ForcesHeader, Filler, Filler>> \o [j \in 1..shown |-> spoilt(j)]

\* the outputs the external computation may leave for geometry g; the last
\* one ends in the middle of the coordinate block
Outputs(g) ==
    { CoordBlock(g, cv) \o <<Filler>> \o EnergyPart(ev) \o ForcesPart(g, fv) :
        cv \in CoordVariants, ev \in EnergyVariants, fv \in ForcesVariants }
    \cup { SubSeq(CoordBlock(g, "good"), 1, 2 + Len(g.numbers)) }

\* the geometries evaluated: the sentinel, a sentinel that carries a stdout
\* pointer, a boxed atom, a boxed dimer 100 A long, an atom without cell
Hbox == Geometry(<<1>>, << <<0, 0, 0>> >>, 100000)
EvalGeometries ==
    { NullState,
      [NullState EXCEPT !.stdout = Some("old")],
      Hbox,
      Geometry(<<1, 1>>, << <<0, 0, 0>>, <<7400, 0, 1000000>> >>, 2000000),
      Geometry(<<1>>, << <<0, 0, 0>> >>, 0) }
PropertiesChoices == { <<"energy">>, <<"energy", "forces">> }

\* ------------------------------------------------- reference evaluation
\* parsl.AUTO_LOGNAME: the file the external computation's stdout goes to
StdoutPath == "stdout"

evaluate_single_always_computes(geometry) == <<"app_pre", "app_post">>

\* evaluate_single(geometry, ...) / evaluate(geometry, reference): the apps
\* the call submits
evaluate_single(geometry) ==
    IF Geometry_eq(geometry, NullState)
    THEN <<"copy_app_future">>
    ELSE <<"app_pre", "app_post">>

\* inputs=[pre.stdout, pre.stderr, pre]: the apps app_post waits for
post_inputs == {"app_pre"}
Ran(app) == \E k \in 1..Len(eran) : eran[k] = app
Submitted(app) == \E k \in 1..Len(eapps) : eapps[k] = app

\* a reference evaluation of geometry g is called for
Evaluate(g, props) ==
    /\ epc \in {"idle", "done", "raised"}
    /\ egeom' = g
    /\ eprops' = props
    /\ eapps' = evaluate_single(g)
    /\ epc' = "submitted"
    /\ etext' = <<>>
    /\ eresult' = <<>>
    /\ eran' = <<>>
    /\ UNCHANGED NotEval

\* copy_app_future(NullState) runs
CopyNullState ==
    /\ epc = "submitted"
    /\ Submitted("copy_app_future")
    /\ eresult' = Returned(NullState)
    /\ eran' = Append(eran, "copy_app_future")
    /\ epc' = "done"
    /\ UNCHANGED <<egeom, eprops, etext, eapps>>
    /\ UNCHANGED NotEval

\* app_pre runs: cp2k_singlepoint_pre builds the command (and asserts that
\* the geometry is periodic), then CP2K runs and leaves its output
AppPre ==
    /\ epc = "submitted"
    /\ Submitted("app_pre")
    /\ ~Ran("app_pre")
    /\ IF periodic(egeom)
       THEN /\ \E text \in Outputs(egeom) : etext' = text
            /\ eran' = Append(eran, "app_pre")
            /\ UNCHANGED <<epc, eresult>>
       ELSE /\ eresult' = Raised("AssertionError")
            /\ epc' = "raised"
            /\ UNCHANGED <<etext, eran>>
    /\ UNCHANGED <<egeom, eprops, eapps>>
    /\ UNCHANGED NotEval

\* app_post runs, once the apps among its inputs have finished
AppPost ==
    /\ epc = "submitted"
    /\ Submitted("app_post")
    /\ \A a \in post_inputs : Ran(a)
    /\ LET r == cp2k_singlepoint_post(egeom, eprops, StdoutPath, etext) IN
        /\ eresult' = r
        /\ epc' = IF r.raised = "" THEN "done" ELSE "raised"
    /\ eran' = Append(eran, "app_post")
    /\ UNCHANGED <<egeom, eprops, etext, eapps>>
    /\ UNCHANGED NotEval

InitEval ==
    IdleEval /\ IdleWalker /\ IdlePartition /\ IdleDataset /\ IdleAtomic /\ IdleBias /\ IdleQuench /\ IdleString /\ IdleGeometry /\ IdleContent /\ IdleLearning /\ IdleTemplate

NextEval ==
    \/ \E g \in EvalGeometries, props \in PropertiesChoices : Evaluate(g, props)
    \/ CopyNullState
    \/ AppPre
    \/ AppPost

SpecEval == InitEval /\ [][NextEval]_vars

\* -------------------------------------------- reference evaluation: claims
\* the null sentinel: one dummy atom at the origin, no cell
IsNullSentinel(g) ==
    g.numbers = <<0>> /\ g.positions = << <<0, 0, 0>> >> /\ g.cell = 0

\* C7: an evaluation of the null sentinel submits neither app_pre nor
\* app_post and yields the null sentinel; an evaluation of any other
\* geometry submits app_pre exactly once and app_post runs only after
\* app_pre has finished.
C7_Evaluate ==
    epc # "idle" =>
        IF IsNullSentinel(egeom)
        THEN /\ ~Submitted("app_pre") /\ ~Submitted("app_post")
             /\ ~Ran("app_pre") /\ ~Ran("app_post")
             /\ epc = "done" =>
                    eresult.raised = "" /\ IsNullSentinel(eresult.geom)
        ELSE /\ Cardinality({k \in 1..Len(eapps) : eapps[k] = "app_pre"}) = 1
             /\ Cardinality({k \in 1..Len(eran) : eran[k] = "app_pre"}) <= 1
             /\ Ran("app_post") => eran = <<"app_pre", "app_post">>

\* C7 witness: the evaluation of a null sentinel that is not the NullState
\* object itself has returned
C7_Witness ==
    /\ epc = "done"
    /\ IsNullSentinel(egeom)
    /\ egeom.stdout # None
    /\ eran = <<"copy_app_future">>
    /\ IsNullSentinel(eresult.geom)

\* the parser has run on the output of the external computation
Parsed == epc \in {"done", "raised"} /\ Ran("app_post")

\* C8: whatever the output text, parsing returns the input geometry
\* labelled with the energy (and the forces when requested) or the null
\* sentinel carrying the pointer to the output; it never raises.
C8_ParseTotal ==
    Parsed =>
        /\ eresult.raised = ""
        /\ eresult.geom.stdout = Some(StdoutPath)
        /\ \/ IsNullSentinel(eresult.geom)
           \/ /\ eresult.geom.numbers = egeom.numbers
              /\ eresult.geom.positions = egeom.positions
              /\ eresult.geom.cell = egeom.cell
              /\ eresult.geom.energy # None
              /\ "forces" \in {eprops[k] : k \in 1..Len(eprops)} =>
                    eresult.geom.forces # <<>>

\* the output holds a readable coordinate block for every atom, and a
\* coordinate in it is more than 0.01 Angstrom from the input geometry's
CoordinatesOff ==
    LET n == Len(egeom.numbers)
        found == LinesWith(etext, CoordHeader.head)
        lines == BlockAfter(etext, Last(found), n)
    IN  /\ found # {}
        /\ Len(lines) = n
        /\ \A j \in 1..n : RowOk(Columns(lines[j], 4, 7))
        /\ \E j \in 1..n : \E c \in 1..3 :
              abs(Row(Columns(lines[j], 4, 7))[c] - egeom.positions[j][c]) > 100

\* C9: when a parsed coordinate differs from the input position by more
\* than 0.01 Angstrom, the evaluation returns the null sentinel carrying
\* the pointer to the output.
C9_PositionCheck ==
    (Parsed /\ CoordinatesOff) =>
        /\ eresult.raised = ""
        /\ IsNullSentinel(eresult.geom)
        /\ eresult.geom.stdout = Some(StdoutPath)

\* ------------------------------------------------------- atomic energy
\* 1e10 eV, what _extract_energy returns for the null sentinel
FailedEnergy == 1000000000

\* _extract_energy(state)
_extract_energy(st) ==
    IF Geometry_eq(st, NullState) THEN FailedEnergy ELSE st.energy[1]

\* CP2K.get_single_atom_references(element): the multiplicities, ascending
get_single_atom_references(number) ==
    LET mults == {mult \in 1..15 :
                    /\ ~(number % 2 = 0 /\ mult % 2 = 0)
                    /\ ~(mult - 1 > number)}
        RECURSIVE ascending(_)
        ascending(S) ==
            IF S = {} THEN <<>>
            ELSE LET lo == CHOOSE x \in S : \A y \in S : x <= y
                 IN  <<lo>> \o ascending(S \ {lo})
    IN  ascending(mults)

\* min(energies)
min(energies) ==
    CHOOSE e \in {energies[k] : k \in 1..Len(energies)} :
        \A k \in 1..Len(energies) : e <= energies[k]

\* get_minimum_energy(element, configs, *energies)
get_minimum_energy(energies) ==
    LET energy == min(energies)
    IN  IF energy = FailedEnergy THEN [raised |-> "AssertionError", energy |-> 0]
        ELSE [raised |-> "", energy |-> energy]

\* the outputs the computation of one candidate may leave: it converges to
\* one of three energies, it prints no energy, or it prints coordinates
\* 0.015 A off
CandidateOutputs(g) ==
    { CoordBlock(g, "good") \o <<Filler, EnergyLine(v)>> \o ForcesPart(g, "good") :
        v \in {0 - 3, 0 - 2, 0 - 1} }
    \cup { CoordBlock(g, "good") \o <<Filler>>,
           CoordBlock(g, "off") \o <<Filler, EnergyLine(0 - 2)>>
                \o ForcesPart(g, "good") }

\* the single-atom geometry compute_atomic_energy evaluates, box_size given
AtomState == Geometry(<<aelement>>, << <<0, 0, 0>> >>, abox[1])

Candidate(mult) == [mult |-> mult, outcome |-> "pending", energy |-> 0]

\* compute_atomic_energy(element, box_size), the driver's part: the
\* references are listed, the state is constructed (Geometry(numbers=...,
\* positions=..., cell=...) without box_size, a call Geometry.__init__ has no
\* parameters for) and one evaluation per reference is submitted
ComputeAtomicEnergy(number, box_size) ==
    /\ apc \in {"idle", "returned", "raised"}
    /\ aelement' = number
    /\ abox' = box_size
    /\ acands' = [k \in 1..Len(get_single_atom_references(number)) |->
                    Candidate(get_single_atom_references(number)[k])]
    /\ IF box_size = None
       THEN apc' = "raised" /\ aresult' = "TypeError"
       ELSE apc' = "evaluating" /\ aresult' = <<>>
    /\ UNCHANGED NotAtomic

\* extract_energy(evaluate(state, reference)) resolves for candidate i
EvaluateCandidate(i) ==
    /\ apc = "evaluating"
    /\ acands[i].outcome = "pending"
    /\ \E text \in CandidateOutputs(AtomState) :
          LET r == cp2k_singlepoint_post(AtomState, <<"energy", "forces">>,
                                         StdoutPath, text)
          IN  acands' = [acands EXCEPT ![i] =
                IF r.raised # ""
                THEN [@ EXCEPT !.outcome = "raised"]
                ELSE [@ EXCEPT !.outcome = IF Geometry_eq(r.geom, NullState)
                                           THEN "null" ELSE "energy",
                               !.energy = _extract_energy(r.geom)]]
    /\ UNCHANGED <<aelement, abox, apc, aresult>>
    /\ UNCHANGED NotAtomic

\* get_minimum_energy runs once every energy future is done; a failed
\* argument future fails the app before its body runs
GetMinimumEnergy ==
    /\ apc = "evaluating"
    /\ \A k \in 1..Len(acands) : acands[k].outcome # "pending"
    /\ IF \E k \in 1..Len(acands) : acands[k].outcome = "raised"
       THEN apc' = "raised" /\ aresult' = "DependencyError"
       ELSE LET m == get_minimum_energy([k \in 1..Len(acands) |->
                                            acands[k].energy])
            IN  IF m.raised # ""
                THEN apc' = "raised" /\ aresult' = m.raised
                ELSE apc' = "returned" /\ aresult' = m.energy
    /\ UNCHANGED <<aelement, abox, acands>>
    /\ UNCHANGED NotAtomic

InitAtomic ==
    IdleAtomic /\ IdleBias /\ IdleQuench /\ IdleString /\ IdleGeometry /\ IdleContent /\ IdleLearning /\ IdleTemplate /\ IdleWalker /\ IdlePartition /\ IdleDataset /\ IdleEval

NextAtomic ==
    \/ \E number \in 1..3, box_size \in {None, Some(100000)} :
            ComputeAtomicEnergy(number, box_size)
    \/ \E i \in 1..Len(acands) : EvaluateCandidate(i)
    \/ GetMinimumEnergy

SpecAtomic == InitAtomic /\ [][NextAtomic]_vars

\* ------------------------------------------------ atomic energy: claims
\* the energies of the candidates whose evaluation succeeded
Succeeded == {k \in 1..Len(acands) : acands[k].outcome = "energy"}

\* C10: when compute_atomic_energy has finished, every candidate has been
\* evaluated; if some candidate succeeded the call returned the least of
\* the successful energies, and it raised an assertion error if and only
\* if every candidate failed.
C10_MinimumEnergy ==
    apc \in {"returned", "raised"} =>
        /\ \A k \in 1..Len(acands) : acands[k].outcome # "pending"
        /\ IF Succeeded # {}
           THEN /\ apc = "returned"
                /\ \E k \in Succeeded : aresult = acands[k].energy
                /\ \A k \in Succeeded : aresult <= acands[k].energy
           ELSE apc = "raised" /\ aresult = "AssertionError"

\* C11: the multiplicities of the candidate references of an element with
\* atomic number Z are exactly the m in 1..15 with m - 1 of the parity of Z
\* and m - 1 <= Z.
C11_Multiplicities ==
    apc # "idle" =>
        {acands[k].mult : k \in 1..Len(acands)}
            = {m \in 1..15 : (m - 1) % 2 = aelement % 2 /\ m - 1 <= aelement}

\* ------------------------------------------------------------- template
\* A hamiltonian component: its class and which instance of the class it is
Component(cls, key) == [cls |-> cls, key |-> key]
Einstein1 == Component("EinsteinCrystal", 1)
Einstein2 == Component("EinsteinCrystal", 2)
Plumed1   == Component("PlumedHamiltonian", 1)

\* A hamiltonian is a mixture: a sequence of terms [h, c], c the coefficient
\* of component h in halves (2 is 1.0).  Zero() is the empty mixture.
Term(h, c) == [h |-> h, c |-> c]
Zero == <<>>

\* mixture + term: the coefficient of a known component grows, a new
\* component is appended
add_term(m, t) ==
    IF \E k \in 1..Len(m) : m[k].h = t.h
    THEN [k \in 1..Len(m) |->
            IF m[k].h = t.h THEN Term(m[k].h, m[k].c + t.c) ELSE m[k]]
    ELSE Append(m, t)

\* MixtureHamiltonian.__add__
RECURSIVE mixture_add(_, _)
mixture_add(m, other) ==
    IF other = <<>> THEN m
    ELSE mixture_add(add_term(m, Head(other)), Tail(other))

\* c * hamiltonian, c in halves
mixture_mul(m, c) == [k \in 1..Len(m) |-> Term(m[k].h, (m[k].c * c) \div 2)]

\* sum([w.hamiltonian for w in walkers], start=Zero())
RECURSIVE sum_hamiltonians(_, _)
sum_hamiltonians(ws, i) ==
    IF i = 0 THEN Zero
    ELSE mixture_add(sum_hamiltonians(ws, i - 1), ws[i].hamiltonian)

\* MixtureHamiltonian.get_coefficients(mixture): per component of self, its
\* coefficient in mixture, 0 when mixture lacks it
get_coefficients(self, mixture) ==
    [k \in 1..Len(self) |->
        IF \E j \in 1..Len(mixture) : mixture[j].h = self[k].h
        THEN mixture[CHOOSE j \in 1..Len(mixture) : mixture[j].h = self[k].h].c
        ELSE 0]

\* Walker.nve, Walker.nvt, Walker.npt
nve(w) == w.temperature = None /\ w.pressure = None
nvt(w) == w.temperature # None /\ w.pressure = None
npt(w) == w.temperature # None /\ w.pressure # None

\* the order of the names as strings: the class names alphabetically, then
\* the counts (single digits)
ClassRank(cls) == IF cls = "EinsteinCrystal" THEN 1 ELSE 2
NameBefore(a, b) ==
    \/ ClassRank(a.cls) < ClassRank(b.cls)
    \/ a.cls = b.cls /\ a.count < b.count

\* sorted(...) of a sequence of named entries, by name
RECURSIVE sorted(_)
sorted(entries) ==
    IF entries = <<>> THEN <<>>
    ELSE LET lo == CHOOSE k \in 1..Len(entries) :
                      \A j \in 1..Len(entries) :
                          j = k \/ NameBefore(entries[k], entries[j])
         IN  <<entries[lo]>> \o
             sorted([j \in 1..(Len(entries) - 1) |->
                        IF j < lo THEN entries[j] ELSE entries[j + 1]])

\* a walker whose hamiltonian is the mixture m
TWalker(T, P, m) ==
    [BaseWalker EXCEPT !.hamiltonian = m, !.temperature = T, !.pressure = P]

\* the walkers _simulate is called with: NVT, NPT and NVE walkers over two
\* harmonic components and one bias component
TemplatePool ==
    { TWalker(Some(300), None, <<Term(Einstein1, 2)>>),
      TWalker(Some(300), None, <<Term(Einstein1, 1)>>),
      TWalker(Some(600), None, <<Term(Einstein2, 2)>>),
      TWalker(Some(300), None, <<Term(Plumed1, 2), Term(Einstein2, 1)>>),
      TWalker(Some(300), Some(0), <<Term(Einstein2, 2)>>),
      TWalker(Some(600), Some(100), <<Term(Einstein1, 2)>>),
      TWalker(None, None, <<Term(Einstein1, 2), Term(Plumed1, 2)>>),
      TWalker(None, None, <<Term(Einstein2, 2)>>) }

\* the names template gives the components of all_hamiltonians: the class
\* name and how many components of the class came before
named(all) ==
    [k \in 1..Len(all) |->
        [cls |-> all[k].h.cls,
         count |-> Cardinality({j \in 1..(k - 1) : all[j].h.cls = all[k].h.cls}),
         h |-> all[k].h,
         c |-> all[k].c]]

\* the name as the string of the header
NameString(n) == n.cls \o ToString(n.count)

\* the assertion template opens with
one_partition_unchecked(ws) == TRUE
one_partition(ws) == Len(partition(ws)) = 1

\* the thermodynamic columns of the header, from the first walker
header_ensemble(w) ==
    IF npt(w) THEN <<"TEMP", "PRESSURE">>
    ELSE IF nvt(w) THEN <<"TEMP">>
    ELSE <<>>

\* the set points a walker's row opens with
ensemble_temperature_only(w) ==
    IF npt(w) THEN <<w.temperature[1]>>
    ELSE IF nvt(w) THEN <<w.temperature[1]>>
    ELSE <<>>
ensemble(w) ==
    IF npt(w) THEN <<w.temperature[1], w.pressure[1]>>
    ELSE IF nvt(w) THEN <<w.temperature[1]>>
    ELSE <<>>

\* template(walkers): hamiltonians_map as the sorted named components and
\* weights_table as the header followed by one row per walker
template(ws) ==
    LET all_hamiltonians == sum_hamiltonians(ws, Len(ws))
        entries == sorted(named(all_hamiltonians))
        all_sorted == [k \in 1..Len(entries) |-> Term(entries[k].h, entries[k].c)]
        names == [k \in 1..Len(entries) |-> NameString(entries[k])]
        header == header_ensemble(ws[1]) \o names
        row(i) == ensemble(ws[i]) \o
                  get_coefficients(all_sorted, mixture_mul(ws[i].hamiltonian, 2))
    IN  [hamiltonians_map |-> entries,
         weights_table |-> <<header>> \o [i \in 1..Len(ws) |-> row(i)]]

\* _simulate(walkers): an empty list and a list of more than one partition
\* raise AssertionError; otherwise the template is built
SimulateCall(ws) ==
    /\ tpc = "idle"
    /\ tws' = ws
    /\ IF Len(ws) > 0 /\ one_partition(ws)
       THEN /\ tpc' = "templated"
            /\ ttable' = template(ws).weights_table
            /\ tmap' = template(ws).hamiltonians_map
       ELSE /\ tpc' = "raised"
            /\ UNCHANGED <<ttable, tmap>>
    /\ UNCHANGED tlog
    /\ UNCHANGED NotTemplate

\* the hamiltonians of the map are serialized to files
SerializeHamiltonians ==
    /\ tpc = "templated"
    /\ tpc' = "serialized"
    /\ tlog' = tlog \o [k \in 1..Len(tmap) |-> <<"serialize", NameString(tmap[k])>>]
    /\ UNCHANGED <<tws, ttable, tmap>>
    /\ UNCHANGED NotTemplate

\* the simulation job is submitted
SubmitRun ==
    /\ tpc = "serialized"
    /\ tpc' = "submitted"
    /\ tlog' = Append(tlog, <<"submit", "">>)
    /\ UNCHANGED <<tws, ttable, tmap>>
    /\ UNCHANGED NotTemplate

\* the lists of at most n walkers of the pool
RECURSIVE WalkerLists(_)
WalkerLists(n) ==
    IF n = 0 THEN {<<>>}
    ELSE WalkerLists(n - 1) \cup
         {Append(l, w) : l \in {x \in WalkerLists(n - 1) : Len(x) = n - 1},
                         w \in TemplatePool}

InitTemplate ==
    /\ IdleTemplate
    /\ IdleWalker /\ IdlePartition /\ IdleDataset /\ IdleEval /\ IdleAtomic /\ IdleBias /\ IdleQuench /\ IdleString /\ IdleGeometry /\ IdleContent /\ IdleLearning

NextTemplate ==
    \/ \E ws \in WalkerLists(MaxTemplate) : SimulateCall(ws)
    \/ SerializeHamiltonians
    \/ SubmitRun

SpecTemplate == InitTemplate /\ [][NextTemplate]_vars

\* the call returned from template
Templated == tpc \in {"templated", "serialized", "submitted"}

\* the components the walkers of the call use
ComponentsOf(ws) ==
    UNION {{ws[i].hamiltonian[k].h : k \in 1..Len(ws[i].hamiltonian)} :
              i \in 1..Len(ws)}

\* the coefficient, in halves, of component h in the hamiltonian of walker w
CoefficientOf(w, h) ==
    IF \E k \in 1..Len(w.hamiltonian) : w.hamiltonian[k].h = h
    THEN (CHOOSE t \in {w.hamiltonian[k] : k \in 1..Len(w.hamiltonian)} : t.h = h).c
    ELSE 0

\* the thermodynamic columns and set points of an ensemble
ColumnsOf(w) ==
    IF w.temperature = None THEN <<>>
    ELSE IF w.pressure = None THEN <<"TEMP">>
    ELSE <<"TEMP", "PRESSURE">>
SetPointsOf(w) ==
    IF w.temperature = None THEN <<>>
    ELSE IF w.pressure = None THEN <<w.temperature[1]>>
    ELSE <<w.temperature[1], w.pressure[1]>>

\* C12: the weights table of template has as header the thermodynamic
\* columns of the ensemble followed by the sorted unique component names,
\* and one row per walker, in order, of the header's length, holding the
\* walker's set points and then its coefficient of each named component,
\* zero for a component the walker lacks.
C12_Table ==
    Templated =>
        LET header == ttable[1]
            cols == ColumnsOf(tws[1])
            nc == Len(cols)
            nn == Len(tmap)
        IN  /\ Len(ttable) = Len(tws) + 1
            /\ header = cols \o [k \in 1..nn |-> NameString(tmap[k])]
            /\ {tmap[k].h : k \in 1..nn} = ComponentsOf(tws)
            /\ nn = Cardinality(ComponentsOf(tws))
            /\ \A k \in 1..nn : tmap[k].cls = tmap[k].h.cls
            /\ \A k \in 1..(nn - 1) : NameBefore(tmap[k], tmap[k + 1])
            /\ \A i \in 1..Len(tws) :
                  LET row == ttable[i + 1]
                  IN  /\ Len(row) = Len(header)
                      /\ SubSeq(row, 1, nc) = SetPointsOf(tws[i])
                      /\ \A k \in 1..nn :
                            row[nc + k] = CoefficientOf(tws[i], tmap[k].h)

\* two NVT walkers at 300 K with hamiltonians h1 and 0.5 * h1 give the rows
\* (300, 1.0) and (300, 0.5)
C12_Witness ==
    /\ Templated
    /\ Len(tws) = 2
    /\ tws[1] = TWalker(Some(300), None, <<Term(Einstein1, 2)>>)
    /\ tws[2] = TWalker(Some(300), None, <<Term(Einstein1, 1)>>)
    /\ ttable = << <<"TEMP", "EinsteinCrystal0">>, <<300, 2>>, <<300, 1>> >>

\* the walkers of the call span more than one partition
Mixed(ws) == \E i, j \in 1..Len(ws) : ~Compatible(ws[i], ws[j])

\* C13: a call whose walkers span more than one partition raises at once:
\* no table is built, no hamiltonian is serialized and no job is submitted.
C13_MixedRaises ==
    (tpc # "idle" /\ Mixed(tws)) =>
        /\ tpc = "raised"
        /\ ttable = <<>> /\ tmap = <<>>
        /\ tlog = <<>>

\* an NVT and an NPT walker were given to one call, and it raised
C13_Witness ==
    /\ tpc = "raised"
    /\ Len(tws) = 2
    /\ nvt(tws[1]) /\ npt(tws[2])
    /\ tlog = <<>>

\* -------------------------------------------------------- learning loop
\* SequentialLearning(path_output, niterations).run(model, reference,
\* walkers): the iterations whose checkpoint path_output holds are skipped,
\* every other iteration is performed and then checkpointed, and the data
\* the run generated is returned.
niterations == MaxIterations
nwalkers == 5

\* the highest iteration complete in path_output, -1 when there is none
highest_complete(done) ==
    IF done = {} THEN -1 ELSE CHOOSE i \in done : \A j \in done : j <= i

\* the iteration a run begins with
first_iteration_zero(done) == 0
first_iteration(done) == highest_complete(done) + 1

\* learning.run is called
Run ==
    /\ lpc = "idle"
    /\ lruns < MaxRuns
    /\ lruns' = lruns + 1
    /\ lpc' = "running"
    /\ literation' = first_iteration(lcomplete)
    /\ lfirst' = first_iteration(lcomplete)
    /\ ldata' = 0
    /\ UNCHANGED <<lcomplete, lreturned, lperformed>>
    /\ UNCHANGED NotLearning

\* one iteration: the walkers are propagated and their states labelled
Iterate ==
    /\ lpc = "running"
    /\ literation < niterations
    /\ lpc' = "iterated"
    /\ lperformed' = Append(lperformed, literation)
    /\ ldata' = ldata + nwalkers
    /\ UNCHANGED <<lcomplete, literation, lfirst, lreturned, lruns>>
    /\ UNCHANGED NotLearning

\* the iteration is checkpointed in path_output
Checkpoint ==
    /\ lpc = "iterated"
    /\ lcomplete' = lcomplete \cup {literation}
    /\ literation' = literation + 1
    /\ lpc' = "running"
    /\ UNCHANGED <<lfirst, ldata, lreturned, lruns, lperformed>>
    /\ UNCHANGED NotLearning

\* no iteration is left: run returns the data it generated
Return ==
    /\ lpc = "running"
    /\ literation >= niterations
    /\ lreturned' = Some(ldata)
    /\ lpc' = "idle"
    /\ UNCHANGED <<lcomplete, literation, lfirst, ldata, lruns, lperformed>>
    /\ UNCHANGED NotLearning

\* the run is interrupted; what was not checkpointed is lost
Interrupt ==
    /\ lpc \in {"running", "iterated"}
    /\ lpc' = "idle"
    /\ UNCHANGED <<lcomplete, literation, lfirst, ldata, lreturned, lruns,
                   lperformed>>
    /\ UNCHANGED NotLearning

InitLearning ==
    /\ IdleLearning
    /\ IdleWalker /\ IdlePartition /\ IdleDataset /\ IdleEval /\ IdleAtomic /\ IdleBias /\ IdleQuench /\ IdleString /\ IdleGeometry /\ IdleContent
    /\ IdleTemplate

NextLearning ==
    \/ Run
    \/ Iterate
    \/ Checkpoint
    \/ Return
    \/ Interrupt

SpecLearning == InitLearning /\ [][NextLearning]_vars

\* C14: every iteration performed is checkpointed before the next begins,
\* a run begins after the highest complete iteration, an iteration that is
\* complete in the output directory is never performed again, and a run
\* that found every iteration complete returns an empty dataset.
C14_Restart ==
    [][ /\ (lpc' = "running" /\ lpc # "running") =>
              /\ \A i \in 0..(literation' - 1) : i \in lcomplete'
              /\ \A i \in lcomplete' : i < literation'
        /\ lperformed' # lperformed =>
              lperformed'[Len(lperformed')] \notin lcomplete
        /\ (lreturned' # lreturned /\ lfirst = niterations) =>
              lreturned' = Some(0) ]_vars

\* a second run on a complete output directory has returned an empty
\* dataset, every iteration having been performed once
C14_Witness ==
    /\ lruns = 2 /\ lpc = "idle"
    /\ lcomplete = 0..(niterations - 1)
    /\ lfirst = niterations
    /\ lreturned = Some(0)
    /\ Len(lperformed) = niterations

\* ------------------------------------------------ dataset: the FlowAtoms
\* The keys atoms.info may hold.  Energies are whole eV; a log pointer is
\* NoLog (the code's False) or the number of a log file.
Keys ==
    {"energy", "stress", "formation_energy", "atomic_energy_H",
     "atomic_energy_O", "atomic_energy_Cu", "Lattice", "pbc", "phase",
     "reference_status", "reference_stdout", "reference_stderr"}
NoLog == 0

\* FlowAtoms.__init__: the keys of the evaluation are set when absent
FlowAtoms(numbers, info, forces, calc) ==
    [numbers |-> numbers,
     info |-> [k \in Keys |->
                 IF k \in DOMAIN info THEN Some(info[k])
                 ELSE IF k = "reference_status" THEN Some(FALSE)
                 ELSE IF k \in {"reference_stdout", "reference_stderr"}
                      THEN Some(NoLog)
                 ELSE None],
     forces |-> forces,
     calc |-> calc]

\* key.lower()
lower(key) == IF key = "Lattice" THEN "lattice" ELSE key
retain_keys == {"lattice", "properties", "pbc"}

\* FlowAtoms.reset
FlowAtoms_reset_keeps_status(a) ==
    [a EXCEPT
        !.info = [k \in Keys |->
                    IF k \in {"reference_stdout", "reference_stderr"}
                    THEN Some(NoLog)
                    ELSE IF k = "reference_status" THEN a.info[k]
                    ELSE IF lower(k) \in retain_keys THEN a.info[k]
                    ELSE None],
        !.calc = None,
        !.forces = None]
FlowAtoms_reset(a) ==
    [a EXCEPT
        !.info = [k \in Keys |->
                    IF k \in {"reference_stdout", "reference_stderr"}
                    THEN Some(NoLog)
                    ELSE IF k = "reference_status" THEN Some(FALSE)
                    ELSE IF lower(k) \in retain_keys THEN a.info[k]
                    ELSE None],
        !.calc = None,
        !.forces = None]

\* the FlowAtoms the datasets are made of: two evaluated geometries, a
\* failed evaluation, a geometry with its formation energy, and a geometry
\* never evaluated
H2 ==
    FlowAtoms(<<1, 1>>,
              [energy |-> 10, stress |-> 1, Lattice |-> 8, pbc |-> TRUE,
               reference_status |-> TRUE, reference_stdout |-> 1,
               reference_stderr |-> 2],
              Some(<<3, -3>>), Some(10))
H2O ==
    FlowAtoms(<<1, 8, 1>>,
              [energy |-> 25, phase |-> 1, reference_status |-> TRUE,
               reference_stdout |-> 3],
              Some(<<1, -2, 1>>), None)
O2failed ==
    FlowAtoms(<<8, 8>>,
              [reference_status |-> FALSE, reference_stdout |-> 4,
               reference_stderr |-> 5],
              None, None)
H2formation ==
    FlowAtoms(<<1, 1>>,
              [energy |-> 10, formation_energy |-> 4, atomic_energy_H |-> 3,
               reference_status |-> TRUE],
              Some(<<2, -2>>), None)
Cu ==
    FlowAtoms(<<29>>, [energy |-> 7, pbc |-> FALSE], Some(<<0>>), None)
AtomsPool == {H2, H2O, O2failed, H2formation, Cu}

\* the lists of at most n FlowAtoms of the pool
RECURSIVE Data(_)
Data(n) ==
    IF n = 0 THEN {<<>>}
    ELSE Data(n - 1) \cup
         {Append(d, a) : d \in {x \in Data(n - 1) : Len(x) = n - 1},
                         a \in AtomsPool}

\* the Datasets given as argument to + and append
OtherData == {<<>>, <<O2failed>>, <<H2, Cu>>}

\* what an operation gives: a new Dataset (its FlowAtoms), a value, or the
\* exception it raised
ReturnedData(d) == [raised |-> "", data |-> d]
ReturnedValue(v) == [raised |-> "", value |-> v]
RaisedError(e) == [raised |-> e]

\* get_indices_per_flag(flag, inputs=[f]): the 0-based indices, in order, of
\* the atoms whose reference_status is flag
RECURSIVE get_indices_loop(_, _, _)
get_indices_loop(flag, data, i) ==
    IF i > Len(data) THEN <<>>
    ELSE (IF data[i].info["reference_status"] = Some(flag)
          THEN <<i - 1>> ELSE <<>>) \o get_indices_loop(flag, data, i + 1)
get_indices_per_flag_unflagged(flag, data) ==
    get_indices_loop(TRUE, data, 1)
get_indices_per_flag(flag, data) ==
    get_indices_loop(flag, data, 1)

\* reset_dataset on FlowAtoms: every atoms is reset
Dataset_reset(data) == [k \in 1..Len(data) |-> FlowAtoms_reset(data[k])]

\* ase.data.atomic_numbers
atomic_numbers(element) ==
    IF element = "H" THEN 1 ELSE IF element = "O" THEN 8 ELSE 29

\* np.sum(atoms.numbers == number)
natoms_per_number(atoms, number) ==
    Cardinality({i \in 1..Len(atoms.numbers) : atoms.numbers[i] = number})

\* 'atomic_energy_{}'.format(element)
atomic_energy_label(element) == "atomic_energy_" \o element

\* the elements of the call that occur in atoms, as positions in elements
Occurring(atoms, elements) ==
    {i \in 1..Len(elements) :
        natoms_per_number(atoms, atomic_numbers(elements[i])) > 0}

\* reference += natoms_per_number * energy, over the first n elements
RECURSIVE reference_energy_uncounted(_, _, _, _)
reference_energy_uncounted(atoms, elements, energies, n) ==
    IF n = 0 THEN 0
    ELSE reference_energy_uncounted(atoms, elements, energies, n - 1)
         + (IF n \in Occurring(atoms, elements) THEN energies[n] ELSE 0)
RECURSIVE reference_energy(_, _, _, _)
reference_energy(atoms, elements, energies, n) ==
    IF n = 0 THEN 0
    ELSE reference_energy(atoms, elements, energies, n - 1)
         + natoms_per_number(atoms, atomic_numbers(elements[n])) * energies[n]

\* the body of insert_formation_energy's loop for one atoms: the exception
\* it raises ("" when none)
insert_raises_unaccounted(atoms, elements, energies) ==
    LET counted ==
            Cardinality({i \in 1..Len(atoms.numbers) :
                            \E j \in 1..Len(elements) :
                                atoms.numbers[i] = atomic_numbers(elements[j])})
    IN  IF atoms.info["formation_energy"] # None THEN "AssertionError"
        ELSE IF \E i \in Occurring(atoms, elements) :
                    atoms.info[atomic_energy_label(elements[i])] # None
             THEN "AssertionError"
        ELSE IF atoms.info["energy"] = None THEN "KeyError"
        ELSE ""
insert_raises(atoms, elements, energies) ==
    LET counted ==
            Cardinality({i \in 1..Len(atoms.numbers) :
                            \E j \in 1..Len(elements) :
                                atoms.numbers[i] = atomic_numbers(elements[j])})
    IN  IF atoms.info["formation_energy"] # None THEN "AssertionError"
        ELSE IF \E i \in Occurring(atoms, elements) :
                    atoms.info[atomic_energy_label(elements[i])] # None
             THEN "AssertionError"
        ELSE IF Len(atoms.numbers) - counted # 0 THEN "AssertionError"
        ELSE IF atoms.info["energy"] = None THEN "KeyError"
        ELSE ""

\* and the atoms it leaves
insert_atoms(atoms, elements, energies) ==
    LET reference == reference_energy(atoms, elements, energies,
                                      Len(elements))
        labelled == {atomic_energy_label(elements[i]) :
                        i \in Occurring(atoms, elements)}
        energy_of(label) ==
            energies[CHOOSE i \in 1..Len(elements) :
                        atomic_energy_label(elements[i]) = label]
    IN  [atoms EXCEPT
            !.info = [k \in Keys |->
                        IF k = "formation_energy"
                        THEN Some(atoms.info["energy"][1] - reference)
                        ELSE IF k \in labelled THEN Some(energy_of(k))
                        ELSE atoms.info[k]]]

\* insert_formation_energy on FlowAtoms: the first atoms that raises ends
\* the app, and nothing is written
insert_formation_energy_data(data, elements, energies) ==
    IF \E k \in 1..Len(data) : insert_raises(data[k], elements, energies) # ""
    THEN LET k == CHOOSE j \in 1..Len(data) :
                     /\ insert_raises(data[j], elements, energies) # ""
                     /\ \A h \in 1..(j - 1) :
                           insert_raises(data[h], elements, energies) = ""
         IN  RaisedError(insert_raises(data[k], elements, energies))
    ELSE ReturnedData([k \in 1..Len(data) |->
                          insert_atoms(data[k], elements, energies)])

\* get_info_keys on FlowAtoms: the keys of data[0] that every atoms has
info_keys(data) ==
    {k \in Keys : \A i \in 1..Len(data) : data[i].info[k] # None}

\* Dataset.set_formation_energy(**atomic_energies), atomic_energies a
\* sequence of <<element, energy>>
set_formation_energy(data, atomic_energies) ==
    LET elements == [i \in 1..Len(atomic_energies) |-> atomic_energies[i][1]]
        energies == [i \in 1..Len(atomic_energies) |-> atomic_energies[i][2]]
    IN  IF Len(data) = 0 THEN RaisedError("IndexError")
        ELSE IF "formation_energy" \in info_keys(data)
             THEN RaisedError("AssertionError")
        ELSE insert_formation_energy_data(data, elements, energies)

\* the atomic energies set_formation_energy is called with
AtomicEnergies ==
    { << <<"H", 3>> >>,
      << <<"H", 3>>, <<"O", 5>> >>,
      << <<"O", 5>>, <<"H", 3>> >>,
      << <<"Cu", 2>>, <<"H", 3>> >>,
      <<>> }

\* get_index_element_mask(numbers, elements, atom_indices); elements and
\* atom_indices are None or Some(list).  An index outside the atoms raises
\* IndexError in mask_indices[np.array(atom_indices)] = True
mask_raises(numbers, elements, atom_indices) ==
    IF atom_indices = None THEN ""
    ELSE IF \E k \in DOMAIN atom_indices[1] :
                atom_indices[1][k] >= Len(numbers)
         THEN "IndexError"
    ELSE ""
get_index_element_mask(numbers, elements, atom_indices) ==
    [i \in DOMAIN numbers |->
        /\ elements = None
           \/ \E k \in DOMAIN elements[1] :
                  numbers[i] = atomic_numbers(elements[1][k])
        /\ atom_indices = None
           \/ \E k \in DOMAIN atom_indices[1] : atom_indices[1][k] = i - 1]

\* np.any(mask)
any(mask) == \E i \in DOMAIN mask : mask[i]

\* sum and maximum of |forces| over the masked atoms, forces being those of
\* atoms_0 minus the zeroed forces of its copy
RECURSIVE sum_abs(_, _, _)
sum_abs(forces, mask, n) ==
    IF n = 0 THEN 0
    ELSE sum_abs(forces, mask, n - 1) + (IF mask[n] THEN abs(forces[n]) ELSE 0)
max_abs(forces, mask) ==
    CHOOSE x \in {abs(forces[i]) : i \in {j \in DOMAIN mask : mask[j]}} :
        \A i \in DOMAIN mask : mask[i] => abs(forces[i]) <= x

\* errors[i, :] for properties = ['forces'], in meV/angstrom
forces_error(atoms, mask, metric) ==
    LET n == Cardinality({i \in DOMAIN mask : mask[i]})
    IN  IF metric = "mae"
        THEN (1000 * sum_abs(atoms.forces[1], mask, Len(mask))) \div n
        ELSE 1000 * max_abs(atoms.forces[1], mask)

\* the mask compute_metrics uses for one atoms
metrics_mask(atoms, filter) ==
    IF filter.atom_indices # None \/ filter.elements # None
    THEN get_index_element_mask(atoms.numbers, filter.elements,
                                filter.atom_indices)
    ELSE [i \in DOMAIN atoms.numbers |-> TRUE]

\* what the loop of compute_metrics raises at one atoms ("" when nothing)
metrics_raises(atoms, filter) ==
    LET filtered == filter.atom_indices # None \/ filter.elements # None
    IN  IF filtered /\ filter.properties # <<"forces">> THEN "AssertionError"
        ELSE IF filtered /\ mask_raises(atoms.numbers, filter.elements,
                                        filter.atom_indices) # ""
             THEN "IndexError"
        ELSE IF ~any(metrics_mask(atoms, filter)) THEN ""
        ELSE IF filter.properties # <<"forces">> /\ atoms.info["energy"] = None
             THEN "AssertionError"
        ELSE IF atoms.forces = None THEN "AssertionError"
        ELSE IF filter.properties # <<"forces">> /\ atoms.info["stress"] = None
             THEN "AssertionError"
        ELSE ""

\* errors[outer_mask, :]: the rows of the atoms with a non-empty mask, in
\* order; a row is its forces column
RECURSIVE metrics_rows(_, _, _)
metrics_rows(data, filter, i) ==
    IF i > Len(data) THEN <<>>
    ELSE (IF any(metrics_mask(data[i], filter))
          THEN <<forces_error(data[i], metrics_mask(data[i], filter),
                              filter.metric)>>
          ELSE <<>>) \o metrics_rows(data, filter, i + 1)

\* compute_metrics(intrinsic=True, ...) on the FlowAtoms of dataset_0
compute_metrics(data, filter) ==
    IF \E k \in DOMAIN data : metrics_raises(data[k], filter) # ""
    THEN LET k == CHOOSE j \in DOMAIN data :
                     /\ metrics_raises(data[j], filter) # ""
                     /\ \A h \in 1..(j - 1) : metrics_raises(data[h], filter) = ""
         IN  RaisedError(metrics_raises(data[k], filter))
    ELSE IF ~\E k \in DOMAIN data : any(metrics_mask(data[k], filter))
         THEN RaisedError("AssertionError")
    ELSE ReturnedValue(metrics_rows(data, filter, 1))

\* the arguments get_errors is called with
Filters ==
    [elements : {None, Some(<<"H">>), Some(<<"O", "Cu">>)},
     atom_indices : {None, Some(<<0>>), Some(<<2>>)},
     metric : {"mae"},
     properties : {<<"forces">>}]
    \cup
    [elements : {None, Some(<<"H">>)},
     atom_indices : {None},
     metric : {"max"},
     properties : {<<"forces">>, <<"energy", "forces", "stress">>}]

\* floor of the square root, by bisection between lo and hi
RECURSIVE isqrt_between(_, _, _)
isqrt_between(x, lo, hi) ==
    IF lo >= hi THEN lo
    ELSE LET mid == (lo + hi + 1) \div 2
         IN  IF mid * mid <= x THEN isqrt_between(x, mid, hi)
             ELSE isqrt_between(x, lo, mid - 1)
sqrt(x) == isqrt_between(x, 0, IF x > 46340 THEN 46340 ELSE x)

\* 1 / (1e6 * Pascal), rounded: the stress of the model in MPa
MPa == 160218

\* data_1 of compute_metrics: the second input, or the copy of data_0 with
\* energy, stress and forces zeroed when there is one input
zeroed(atoms) ==
    [atoms EXCEPT
        !.info = [k \in Keys |->
                    IF k \in {"energy", "stress"} /\ atoms.info[k] # None
                    THEN Some(0) ELSE atoms.info[k]],
        !.forces = IF atoms.forces = None THEN None
                   ELSE Some([i \in DOMAIN atoms.forces[1] |-> 0])]
data_1_always_zeroed(data_0, inputs) ==
    [k \in DOMAIN data_0 |-> zeroed(data_0[k])]
data_1(data_0, inputs) ==
    IF Len(inputs) = 1 THEN [k \in DOMAIN data_0 |-> zeroed(data_0[k])]
    ELSE inputs[2]

\* np.allclose(atoms_0.numbers, atoms_1.numbers) asserted: "" when it holds,
\* ValueError when the shapes do not broadcast
numbers_raise(atoms_0, atoms_1) ==
    IF atoms_0.numbers = atoms_1.numbers THEN ""
    ELSE IF /\ Len(atoms_0.numbers) # Len(atoms_1.numbers)
            /\ Len(atoms_0.numbers) # 1 /\ Len(atoms_1.numbers) # 1
         THEN "ValueError"
    ELSE "AssertionError"

\* the assertions on the labels of one pair of atoms
labels_raise(atoms_0, atoms_1, properties) ==
    LET has(p) == \E k \in DOMAIN properties : properties[k] = p
    IN  IF has("energy") /\ (atoms_0.info["energy"] = None
                              \/ atoms_1.info["energy"] = None)
        THEN "AssertionError"
        ELSE IF has("forces") /\ (atoms_0.forces = None \/ atoms_1.forces = None)
        THEN "AssertionError"
        ELSE IF has("stress") /\ (atoms_0.info["stress"] = None
                                   \/ atoms_1.info["stress"] = None)
        THEN "AssertionError"
        ELSE ""

\* the reduction of the differences d (a sequence) by the metric
RECURSIVE sum_of(_, _)
sum_of(d, n) == IF n = 0 THEN 0 ELSE sum_of(d, n - 1) + d[n]
reduce(d, metric) ==
    IF metric = "mae"
    THEN sum_of([i \in DOMAIN d |-> abs(d[i])], Len(d)) \div Len(d)
    ELSE IF metric = "rmse"
    THEN sqrt(sum_of([i \in DOMAIN d |-> d[i] * d[i]], Len(d)) \div Len(d))
    ELSE CHOOSE x \in {abs(d[i]) : i \in DOMAIN d} :
             \A i \in DOMAIN d : abs(d[i]) <= x

\* errors[i, j] for one property of a pair of atoms, no mask; the stress of
\* the model is one number, of which every metric is the absolute value
property_error(atoms_0, atoms_1, property, metric) ==
    IF property = "energy"
    THEN reduce(<<(1000 * atoms_0.info["energy"][1]) \div Len(atoms_0.numbers)
                  - (1000 * atoms_1.info["energy"][1])
                        \div Len(atoms_1.numbers)>>, metric)
    ELSE IF property = "forces"
    THEN reduce([i \in DOMAIN atoms_0.forces[1] |->
                    1000 * atoms_0.forces[1][i] - 1000 * atoms_1.forces[1][i]],
                metric)
    ELSE abs(MPa * atoms_0.info["stress"][1] - MPa * atoms_1.info["stress"][1])

\* the first exception a check raises over the pairs, "" when none does
first_raise(n, raises(_)) ==
    IF \E k \in 1..n : raises(k) # ""
    THEN raises(CHOOSE k \in 1..n :
                    raises(k) # "" /\ \A h \in 1..(k - 1) : raises(h) = "")
    ELSE ""

\* compute_metrics without filter on inputs = [data_0] or [data_0, data_1]
compute_metrics_unfiltered(inputs, metric, properties) ==
    LET d0 == inputs[1]
        d1 == data_1(d0, inputs)
        numbers(k) == numbers_raise(d0[k], d1[k])
        labels(k) == labels_raise(d0[k], d1[k], properties)
    IN  IF Len(d0) # Len(d1) THEN RaisedError("AssertionError")
        ELSE IF first_raise(Len(d0), numbers) # ""
        THEN RaisedError(first_raise(Len(d0), numbers))
        ELSE IF first_raise(Len(d0), labels) # ""
        THEN RaisedError(first_raise(Len(d0), labels))
        ELSE IF Len(d0) = 0 THEN RaisedError("AssertionError")
        ELSE ReturnedValue(
                [i \in DOMAIN d0 |->
                    [j \in DOMAIN properties |->
                        property_error(d0[i], d1[i], properties[j], metric)]])

\* the metrics and properties get_errors is called with on two Datasets
Metrics == {"mae", "rmse", "max"}
ErrorCalls ==
    [dataset_1 : {"self"}, metric : Metrics,
     properties : {<<"energy", "forces">>}]
    \cup
    [dataset_1 : {"None", "self", "other"}, metric : {"rmse"},
     properties : {<<"energy", "forces", "stress">>}]
    \cup
    [dataset_1 : {"other"}, metric : {"mae"},
     properties : {<<"energy", "forces">>}]

\* a Dataset operation may be called
MayCall == cn < MaxOps

\* D.success (flag true) and D.failed (flag false)
Indices(flag) ==
    /\ MayCall
    /\ cop' = (IF flag THEN "success" ELSE "failed")
    /\ carg' = <<flag>>
    /\ cout' = ReturnedValue(get_indices_per_flag(flag, cself))
    /\ cn' = cn + 1
    /\ UNCHANGED <<cself, cother, cfrom>>
    /\ UNCHANGED NotContent

\* D + other
AddData ==
    /\ MayCall
    /\ cop' = "add"
    /\ carg' = <<>>
    /\ cout' = ReturnedData(join_dataset(cself, cother))
    /\ cn' = cn + 1
    /\ UNCHANGED <<cself, cother, cfrom>>
    /\ UNCHANGED NotContent

\* D.append(other): D points at the joined store
AppendData ==
    /\ MayCall
    /\ cop' = "append"
    /\ carg' = <<>>
    /\ cself' = join_dataset(cself, cother)
    /\ cfrom' = "append"
    /\ cout' = <<>>
    /\ cn' = cn + 1
    /\ UNCHANGED cother
    /\ UNCHANGED NotContent

\* D.reset()
ResetData ==
    /\ MayCall
    /\ cop' = "reset"
    /\ carg' = <<>>
    /\ cout' = ReturnedData(Dataset_reset(cself))
    /\ cn' = cn + 1
    /\ UNCHANGED <<cself, cother, cfrom>>
    /\ UNCHANGED NotContent

\* D.set_formation_energy(**atomic_energies)
FormationEnergy(atomic_energies) ==
    /\ MayCall
    /\ cop' = "set_formation_energy"
    /\ carg' = atomic_energies
    /\ cout' = set_formation_energy(cself, atomic_energies)
    /\ cn' = cn + 1
    /\ UNCHANGED <<cself, cother, cfrom>>
    /\ UNCHANGED NotContent

\* Dataset.get_errors(D, None, atom_indices, elements, metric, properties)
GetErrors(filter) ==
    /\ MayCall
    /\ cop' = "get_errors"
    /\ carg' = filter
    /\ cout' = compute_metrics(cself, filter)
    /\ cn' = cn + 1
    /\ UNCHANGED <<cself, cother, cfrom>>
    /\ UNCHANGED NotContent

\* Dataset.get_errors(D, dataset_1, metric=, properties=): dataset_1 is None,
\* D itself or the other Dataset
GetErrorsOf(call) ==
    /\ MayCall
    /\ cop' = "get_errors_of"
    /\ carg' = call
    /\ cout' = compute_metrics_unfiltered(
                  IF call.dataset_1 = "None" THEN <<cself>>
                  ELSE IF call.dataset_1 = "self" THEN <<cself, cself>>
                  ELSE <<cself, cother>>,
                  call.metric, call.properties)
    /\ cn' = cn + 1
    /\ UNCHANGED <<cself, cother, cfrom>>
    /\ UNCHANGED NotContent

\* the caller goes on with the Dataset the operation returned
Chain ==
    /\ cout # <<>>
    /\ cout.raised = ""
    /\ cop \in {"add", "reset", "set_formation_energy"}
    /\ cself' = cout.data
    /\ cfrom' = cop
    /\ cop' = "none"
    /\ carg' = <<>>
    /\ cout' = <<>>
    /\ UNCHANGED <<cother, cn>>
    /\ UNCHANGED NotContent

InitContent ==
    /\ cself \in Data(MaxData)
    /\ cother \in OtherData
    /\ cfrom = "init" /\ cop = "none" /\ carg = <<>> /\ cout = <<>> /\ cn = 0
    /\ IdleWalker /\ IdlePartition /\ IdleDataset /\ IdleEval /\ IdleAtomic /\ IdleBias /\ IdleQuench /\ IdleString /\ IdleGeometry
    /\ IdleTemplate /\ IdleLearning

NextContent ==
    \/ \E flag \in BOOLEAN : Indices(flag)
    \/ AddData
    \/ AppendData
    \/ ResetData
    \/ \E ae \in AtomicEnergies : FormationEnergy(ae)
    \/ \E filter \in Filters : GetErrors(filter)
    \/ \E call \in ErrorCalls : GetErrorsOf(call)
    \/ Chain

SpecContent == InitContent /\ [][NextContent]_vars

\* the elements of a sequence, and whether it strictly increases
Elems(q) == {q[k] : k \in 1..Len(q)}
Increasing(q) == \A k \in 1..(Len(q) - 1) : q[k] < q[k + 1]

\* C15: the list success (failed) returns holds, in increasing order,
\* exactly the indices of the geometries whose flag is true (false), and
\* every index 0..length-1 is in exactly one of the two lists.
C15_Partition ==
    cop \in {"success", "failed"} =>
        LET flag == carg[1]
            got == cout.value
            other == get_indices_per_flag(~flag, cself)
            all == 0..(Len(cself) - 1)
        IN  /\ cout.raised = ""
            /\ Increasing(got) /\ Increasing(other)
            /\ Elems(got) \subseteq all
            /\ \A i \in all :
                  /\ i \in Elems(got) <=>
                        cself[i + 1].info["reference_status"] = Some(flag)
                  /\ (i \in Elems(got)) # (i \in Elems(other))

\* failed was read of a Dataset of a successful and then a failed geometry
C15_Witness ==
    /\ cop = "failed"
    /\ cself = <<H2O, O2failed>>
    /\ cout = ReturnedValue(<<1>>)

\* C16: A + B returns, and A.append(B) makes of A, a Dataset of length
\* len(A) + len(B): the geometries of A in their order, then those of B in
\* theirs.
C16_Concatenation ==
    [][ LET joined == IF cop' = "add" THEN cout'.data ELSE cself'
        IN  cop' \in {"add", "append"} =>
              /\ Len(joined) = Len(cself) + Len(cother)
              /\ \A k \in 1..Len(cself) : joined[k] = cself[k]
              /\ \A k \in 1..Len(cother) : joined[Len(cself) + k] = cother[k]
              /\ cother' = cother
              /\ cop' = "add" => cself' = cself ]_vars

\* B was appended to an A of two different geometries
C16_Witness ==
    /\ cop = "append"
    /\ cother = <<O2failed>>
    /\ cself = <<H2, H2O, O2failed>>

\* the keys of the evaluation and the keys reset retains
ReferenceKeys == {"reference_status", "reference_stdout", "reference_stderr"}
Retained == {k \in Keys : k \in {"Lattice", "pbc"}}

\* atoms r is atoms a with its labels cleared
Cleared(r, a) ==
    /\ r.numbers = a.numbers
    /\ r.forces = None /\ r.calc = None
    /\ r.info["reference_status"] = Some(FALSE)
    /\ r.info["reference_stdout"] = Some(NoLog)
    /\ r.info["reference_stderr"] = Some(NoLog)
    /\ \A k \in Retained : r.info[k] = a.info[k]
    /\ \A k \in Keys \ (Retained \cup ReferenceKeys) : r.info[k] = None

\* C17: D.reset() has the geometries of D in their order with every label
\* cleared, the reference status, stdout and stderr False and only lattice
\* and pbc entries kept, and the reset of a Dataset that reset returned has
\* the same content as that Dataset.
C17_ResetIdempotent ==
    [][ cop' = "reset" =>
          /\ cout'.raised = ""
          /\ Len(cout'.data) = Len(cself)
          /\ \A k \in 1..Len(cself) : Cleared(cout'.data[k], cself[k])
          /\ cfrom = "reset" => cout'.data = cself
          /\ cself' = cself ]_vars

\* the reset of the reset of a labelled Dataset
C17_Witness ==
    /\ cfrom = "reset" /\ cop = "reset"
    /\ Len(cself) = 2
    /\ cself[1].numbers = <<1, 1>> /\ cself[1].info["Lattice"] = Some(8)
    /\ cself[2].numbers = <<1, 8, 1>>
    /\ cout = ReturnedData(cself)

\* how many atoms of the atomic number Z atoms has
CountOf(atoms, Z) ==
    Cardinality({i \in DOMAIN atoms.numbers : atoms.numbers[i] = Z})

\* the sum over the first n supplied elements of energy times atoms
RECURSIVE ReferenceSum(_, _, _)
ReferenceSum(atoms, ae, n) ==
    IF n = 0 THEN 0
    ELSE ae[n][2] * CountOf(atoms, atomic_numbers(ae[n][1]))
         + ReferenceSum(atoms, ae, n - 1)

\* energy minus, per supplied element, its energy times its atoms
FormationOf(atoms, ae) ==
    atoms.info["energy"][1] - ReferenceSum(atoms, ae, Len(ae))

\* atoms has an atom of an element the call has no energy for
Uncovered(atoms, ae) ==
    \E i \in DOMAIN atoms.numbers :
        \A j \in DOMAIN ae : atomic_numbers(ae[j][1]) # atoms.numbers[i]

\* a Dataset of labelled geometries without formation energy, all of whose
\* elements the call covers
Applicable(data, ae) ==
    /\ Len(data) > 0
    /\ \A k \in DOMAIN data :
          /\ data[k].info["energy"] # None
          /\ data[k].info["formation_energy"] = None
          /\ ~Uncovered(data[k], ae)

\* C18: the Dataset set_formation_energy returns has the geometries of the
\* source, each with formation_energy equal to its energy minus the sum
\* over the supplied elements of reference energy times the number of atoms
\* of the element in the geometry (nothing for an element it lacks).
C18_FormationEnergy ==
    cop = "set_formation_energy" =>
        /\ Applicable(cself, carg) => cout.raised = ""
        /\ cout.raised = "" =>
              /\ Len(cout.data) = Len(cself)
              /\ \A k \in DOMAIN cself :
                    /\ cout.data[k].numbers = cself[k].numbers
                    /\ cout.data[k].info["energy"] = cself[k].info["energy"]
                    /\ cout.data[k].info["formation_energy"]
                          = Some(FormationOf(cself[k], carg))

\* two hydrogen atoms of energy 10 with H = 3, and a Cu energy supplied
\* too, get formation_energy 4
C18_Witness ==
    /\ cop = "set_formation_energy"
    /\ carg = << <<"Cu", 2>>, <<"H", 3>> >>
    /\ cself = <<H2>>
    /\ cout.raised = ""
    /\ cout.data[1].info["formation_energy"] = Some(4)

\* C19: set_formation_energy raises and returns no Dataset when a geometry
\* has an element without reference energy or a formation_energy label is
\* in the data, and the source Dataset is as before the call.
C19_FormationEnergyFails ==
    [][ cop' = "set_formation_energy" =>
          /\ cself' = cself
          /\ (\E k \in DOMAIN cself :
                  \/ Uncovered(cself[k], carg')
                  \/ cself[k].info["formation_energy"] # None)
              => cout'.raised # "" /\ DOMAIN cout' = {"raised"} ]_vars

\* the call raised on a Dataset whose second geometry has a formation
\* energy, and on one whose second geometry has an uncovered element
C19_Witness ==
    /\ cop = "set_formation_energy"
    /\ cout = RaisedError("AssertionError")
    /\ carg = << <<"H", 3>> >>
    /\ cself = <<H2, H2O>>

\* atom i (1-based) of atoms passes the filter
Passes(atoms, i, filter) ==
    /\ filter.elements # None =>
          \E k \in DOMAIN filter.elements[1] :
              atomic_numbers(filter.elements[1][k]) = atoms.numbers[i]
    /\ filter.atom_indices # None =>
          \E k \in DOMAIN filter.atom_indices[1] :
              filter.atom_indices[1][k] = i - 1

\* the geometries of data with an atom that passes, as positions in data
Matching(data, filter) ==
    {g \in DOMAIN data :
        \E i \in DOMAIN data[g].numbers : Passes(data[g], i, filter)}

\* the j-th smallest element of a set of numbers
Nth(S, j) == CHOOSE x \in S : Cardinality({y \in S : y < x}) = j - 1

\* C20: get_errors with an element or atom-index filter returns one row
\* per geometry that has a matching atom, in dataset order, and no row for
\* the others; when no geometry has a matching atom it raises.
C20_FilterRows ==
    ( /\ cop = "get_errors"
      /\ carg.elements # None \/ carg.atom_indices # None
      /\ carg.properties = <<"forces">>
      /\ \A g \in Matching(cself, carg) : cself[g].forces # None )
    => LET matching == Matching(cself, carg)
           mask(g) == [i \in DOMAIN cself[g].numbers |->
                          Passes(cself[g], i, carg)]
       IN  IF matching = {} THEN cout.raised # ""
           ELSE /\ cout.raised = ""
                /\ Len(cout.value) = Cardinality(matching)
                /\ \A j \in 1..Cardinality(matching) :
                      cout.value[j] =
                          forces_error(cself[Nth(matching, j)],
                                       mask(Nth(matching, j)), carg.metric)

\* every geometry of data has energy and forces
Labelled(data) ==
    \A k \in DOMAIN data : data[k].info["energy"] # None /\ data[k].forces # None

\* C21: get_errors(D, D) of a labelled Dataset D, with any metric and the
\* properties energy and forces, returns one row per geometry, all zero.
C21_SelfErrors ==
    ( /\ cop = "get_errors_of"
      /\ carg.dataset_1 = "self"
      /\ carg.properties = <<"energy", "forces">>
      /\ Labelled(cself) /\ Len(cself) > 0 )
    => /\ cout.raised = ""
       /\ Len(cout.value) = Len(cself)
       /\ \A i \in DOMAIN cout.value :
             cout.value[i] = <<0, 0>>

\* the rmse errors of a Dataset of two labelled geometries against itself
C21_Witness ==
    /\ cop = "get_errors_of"
    /\ carg = [dataset_1 |-> "self", metric |-> "rmse",
               properties |-> <<"energy", "forces">>]
    /\ cself = <<H2, H2O>>
    /\ cout = ReturnedValue(<< <<0, 0>>, <<0, 0>> >>)

\* ------------------------------------------------------ geometry objects
\* Geometry objects are mutable and shared by reference: gobjs holds the
\* objects alive, a reference is a position in it, and gobjs[1] is the
\* module-level NullState, created when psiflow.geometry is imported.

\* parsl.AUTO_LOGNAME: every submitted task writes to a file of its own;
\* the outputs of two tasks are followed
LogNames == <<"stdout.0", "stdout.1">>
AUTO_LOGNAME(n) == LogNames[n + 1]

\* the geometries the driver may construct: a copy of the sentinel that
\* carries a stdout pointer, a boxed atom, a boxed dimer, an atom without
\* cell at the origin and one away from it, a dummy atom (number 0) in a box
Hfree == Geometry(<<1>>, << <<0, 0, 0>> >>, 0)
GeometryPool ==
    { [new_nullstate EXCEPT !.stdout = Some("old")],
      Hbox,
      Geometry(<<1, 1>>, << <<0, 0, 0>>, <<7400, 0, 1000000>> >>, 2000000),
      Hfree,
      Geometry(<<8>>, << <<0, 0, 5000>> >>, 0),
      Geometry(<<0>>, << <<0, 0, 0>> >>, 100000) }
\* the objects the driver has constructed: one geometry, or two of them
Given ==
    { <<g>> : g \in GeometryPool }
    \cup { <<Hbox, g>> : g \in {Hbox, Hfree, [new_nullstate EXCEPT !.stdout = Some("old")]} }

Refs == DOMAIN gobjs

\* the call made last: its name, the references it was given (0: none),
\* the value of object a before the call, the reference returned (0: none),
\* what else it returned and the exception it raised
Call(name, a, b, before, result, value, raised) ==
    [name |-> name, a |-> a, b |-> b, before |-> before, result |-> result,
     value |-> value, raised |-> raised]
NoCall == Call("none", 0, 0, <<>>, 0, "", "")

\* gobjs[a] == gobjs[b]
Compare(a, b) ==
    /\ gop' = Call("__eq__", a, b, gobjs[a], 0,
                   IF Geometry_eq(gobjs[a], gobjs[b]) THEN "True" ELSE "False",
                   "")
    /\ UNCHANGED <<gobjs, gcounter, gfirst, gassigned, gevals>>
    /\ UNCHANGED NotGeometry

\* an assignment that does not look at discard
_assign_identifier_ignores_discard(geom, identifier, discard) ==
    IF Geometry_eq(geom, NullState)
    THEN [raised |-> "", state |-> geom, identifier |-> identifier]
    ELSE IF geom.identifier # None
    THEN [raised |-> "AssertionError", state |-> geom,
          identifier |-> identifier]
    ELSE [raised |-> "",
          state |-> [geom EXCEPT !.identifier = Some(identifier)],
          identifier |-> identifier + 1]

\* _assign_identifier(state, identifier, discard): the state (geom) as the call
\* leaves it and the counter it returns
_assign_identifier(geom, identifier, discard) ==
    IF Geometry_eq(geom, NullState) \/ discard
    THEN [raised |-> "", state |-> geom, identifier |-> identifier]
    ELSE IF geom.identifier # None
    THEN [raised |-> "AssertionError", state |-> geom,
          identifier |-> identifier]
    ELSE [raised |-> "",
          state |-> [geom EXCEPT !.identifier = Some(identifier)],
          identifier |-> identifier + 1]

\* state, identifier = _assign_identifier(gobjs[a], identifier, discard):
\* the driver threads its counter through the call
AssignIdentifier(a, discard) ==
    LET r == _assign_identifier(gobjs[a], gcounter, discard) IN
    /\ gobjs' = [gobjs EXCEPT ![a] = r.state]
    /\ gcounter' = IF r.raised = "" THEN r.identifier ELSE gcounter
    /\ gassigned' = IF r.raised = "" /\ r.identifier # gcounter
                    THEN Append(gassigned, a) ELSE gassigned
    /\ gop' = Call("_assign_identifier", a, 0, gobjs[a],
                   IF r.raised = "" THEN a ELSE 0,
                   IF discard THEN "discard" ELSE "", r.raised)
    /\ UNCHANGED <<gfirst, gevals>>
    /\ UNCHANGED NotGeometry

\* parse_cp2k_output(cp2k_output_str, properties, geometry): the object
\* given as geometry, as the call leaves it.  The assignments to energy and
\* forces happen once the coordinates and the energy are read, which is
\* when a parse for the energy alone succeeds; stress is cleared at the end.
parse_leaves(text, properties, geometry) ==
    LET read == parse_cp2k_output(text, <<"energy">>, geometry)
        whole == parse_cp2k_output(text, properties, geometry)
    IN  IF read.raised # "" \/ Geometry_eq(read.geom, NullState)
        THEN geometry
        ELSE IF whole.raised = "" /\ ~Geometry_eq(whole.geom, NullState)
        THEN whole.geom
        ELSE [geometry EXCEPT !.energy = read.geom.energy, !.forces = <<>>]

\* a cp2k_singlepoint_post that annotates whatever the parser returned
app_post_annotates_returned(objs, a, properties, path, text) ==
    LET geometry == objs[a]
        parsed == parse_cp2k_output(text, properties, geometry)
        left == parse_leaves(text, properties, geometry)
    IN  IF Geometry_eq(geometry, objs[1])
        THEN [objs |-> Append(objs, objs[1]), result |-> Len(objs) + 1,
              raised |-> ""]
        ELSE IF parsed.raised # ""
        THEN [objs |-> [objs EXCEPT ![a] = left], result |-> 0,
              raised |-> parsed.raised]
        ELSE IF ~Geometry_eq(parsed.geom, objs[1])
        THEN [objs |-> [objs EXCEPT ![a] = [left EXCEPT !.stdout = Some(path)]],
              result |-> a, raised |-> ""]
        ELSE [objs |-> [objs EXCEPT ![a] = left,
                                    ![1] = [@ EXCEPT !.stdout = Some(path)]],
              result |-> 1, raised |-> ""]

\* cp2k_singlepoint_post(geometry, properties, inputs) on the objects: a is
\* the reference given as geometry, path is inputs[0] and text what that
\* file holds; result is the reference returned (0: none).  The parser
\* returns either the object it was given or NullState itself.
app_post(objs, a, properties, path, text) ==
    LET geometry == objs[a]
        parsed == parse_cp2k_output(text, properties, geometry)
        left == parse_leaves(text, properties, geometry)
    IN  IF Geometry_eq(geometry, objs[1])
        THEN [objs |-> Append(objs, objs[1]), result |-> Len(objs) + 1,
              raised |-> ""]
        ELSE IF parsed.raised # ""
        THEN [objs |-> [objs EXCEPT ![a] = left], result |-> 0,
              raised |-> parsed.raised]
        ELSE IF ~Geometry_eq(parsed.geom, objs[1])
        THEN [objs |-> [objs EXCEPT ![a] = [left EXCEPT !.stdout = Some(path)]],
              result |-> a, raised |-> ""]
        ELSE [objs |-> Append([objs EXCEPT ![a] = left],
                              [new_nullstate EXCEPT !.stdout = Some(path)]),
              result |-> Len(objs) + 1, raised |-> ""]

\* the outputs CP2K may leave here, by coordinate, energy and forces part:
\* complete, without forces block, with the forces block cut off, without
\* energy line, with a *** for a coordinate, with a *** for the energy
ObjectOutputs(g) ==
    { CoordBlock(g, v[1]) \o <<Filler>> \o EnergyPart(v[2]) \o ForcesPart(g, v[3]) :
        v \in { <<"good", "good", "good">>, <<"good", "good", "absent">>,
                <<"good", "good", "truncated">>, <<"good", "absent", "good">>,
                <<"stars", "good", "good">>, <<"good", "stars", "good">> } }

\* evaluate(gobjs[a], reference).result(): the sentinel is answered with a
\* deep copy of NullState; for any other geometry app_pre runs CP2K, which
\* leaves some output, and app_post parses it
EvaluateObject(a, props) ==
    /\ Len(gobjs) < MaxObjects
    /\ gevals < Len(LogNames)
    /\ IF Geometry_eq(gobjs[a], gobjs[1])
       THEN /\ gobjs' = Append(gobjs, gobjs[1])
            /\ gop' = Call("evaluate", a, 0, gobjs[a], Len(gobjs) + 1,
                           "copy_app_future", "")
            /\ UNCHANGED gevals
       ELSE IF ~periodic(gobjs[a])
       THEN /\ gop' = Call("evaluate", a, 0, gobjs[a], 0, "app_pre",
                           "AssertionError")
            /\ UNCHANGED <<gobjs, gevals>>
       ELSE \E text \in ObjectOutputs(gobjs[a]) :
              LET r == app_post(gobjs, a, props, AUTO_LOGNAME(gevals), text)
              IN  /\ gobjs' = r.objs
                  /\ gevals' = gevals + 1
                  /\ gop' = Call("evaluate", a, 0, gobjs[a], r.result,
                                 "app_post", r.raised)
    /\ UNCHANGED <<gcounter, gfirst, gassigned>>
    /\ UNCHANGED NotGeometry

InitGeometry ==
    /\ \E given \in Given : gobjs = <<NullState>> \o given
    /\ gfirst \in 0..1
    /\ gcounter = gfirst
    /\ gassigned = <<>>
    /\ gevals = 0
    /\ gop = NoCall
    /\ IdleWalker /\ IdlePartition /\ IdleDataset /\ IdleEval /\ IdleAtomic /\ IdleBias /\ IdleQuench /\ IdleString
    /\ IdleContent /\ IdleLearning /\ IdleTemplate

NextGeometry ==
    \/ \E a \in Refs, b \in Refs : (a = 1 \/ b = 1) /\ Compare(a, b)
    \/ \E a \in Refs, discard \in BOOLEAN : AssignIdentifier(a, discard)
    \/ \E a \in Refs, props \in PropertiesChoices : EvaluateObject(a, props)

SpecGeometry == InitGeometry /\ [][NextGeometry]_vars

\* ------------------------------------------------ geometry objects: claims
\* a geometry with an atom of atomic number 1 or more
Real(g) == \E j \in 1..Len(g.numbers) : g.numbers[j] >= 1

\* C22: the null sentinel compares equal to every null sentinel, also to a
\* copy that carries a stdout pointer, and a null sentinel and a geometry
\* with a real atom (atomic number >= 1) never compare equal, in either
\* order, whatever the position and the cell.
C22_NullEquality ==
    gop.name = "__eq__" =>
        LET g == gobjs[gop.a]
            other == gobjs[gop.b]
        IN  /\ (IsNullSentinel(g) /\ IsNullSentinel(other))
                    => gop.value = "True"
            /\ (IsNullSentinel(g) /\ Real(other)) => gop.value = "False"
            /\ (Real(g) /\ IsNullSentinel(other)) => gop.value = "False"

\* C22 witness: NullState was compared with a copy of itself that carries a
\* stdout pointer
C22_Witness ==
    /\ gop.name = "__eq__"
    /\ gop.a = 1 /\ gop.b # 1
    /\ IsNullSentinel(gobjs[gop.b]) /\ gobjs[gop.b].stdout # None
    /\ gop.value = "True"

\* the call made last was an identifier assignment
Assigning == gop.name = "_assign_identifier"

\* C27: the geometries that are neither null nor discarded get the
\* identifiers c, c + 1, ... in the order of the calls, c being the value
\* the counter started from, and the counter ends at c plus the number
\* assigned; a call on a null sentinel or with discard leaves geometry and
\* counter as they were; a call on a non-null geometry that has an
\* identifier already fails with an AssertionError.
C27_Identifiers ==
    /\ gcounter = gfirst + Len(gassigned)
    /\ \A k \in DOMAIN gassigned :
          gobjs[gassigned[k]].identifier = Some(gfirst + k - 1)
    /\ \A a \in Refs :
          gobjs[a].identifier # None => \E k \in DOMAIN gassigned : gassigned[k] = a
    /\ Assigning =>
          LET before == gop.before
              skipped == IsNullSentinel(before) \/ gop.value = "discard"
          IN  /\ skipped => /\ gop.raised = ""
                            /\ gobjs[gop.a] = before
              /\ (~skipped /\ before.identifier # None)
                    => /\ gop.raised = "AssertionError"
                       /\ gobjs[gop.a] = before
              /\ (~skipped /\ before.identifier = None)
                    => /\ gop.raised = ""
                       /\ gassigned[Len(gassigned)] = gop.a
                       /\ gobjs[gop.a].identifier = Some(gcounter - 1)

\* C27 witness: starting from counter 1, the call made last gave a second
\* geometry the identifier 2, after a first one got 1
C27_Witness ==
    /\ gfirst = 1
    /\ Len(gassigned) = 2
    /\ gassigned[1] > gassigned[2]
    /\ Assigning /\ gop.raised = "" /\ gop.a = gassigned[2]
    /\ gobjs[gassigned[1]].identifier = Some(1)
    /\ gobjs[gassigned[2]].identifier = Some(2)
    /\ gcounter = 3

\* the call made last parsed an output and ended in failure: it returned a
\* null sentinel
ParseFailed ==
    /\ gop.name = "evaluate" /\ gop.value = "app_post"
    /\ gop.result # 0
    /\ IsNullSentinel(gobjs[gop.result])

\* C29: when parsing the output ends in failure, the geometry that was
\* given holds the energy, forces and stress it held before the call.
C29_InputUnchanged ==
    ParseFailed =>
        /\ gobjs[gop.a].energy = gop.before.energy
        /\ gobjs[gop.a].forces = gop.before.forces
        /\ gobjs[gop.a].stress = gop.before.stress

\* a failed parse has left the energy it read on the geometry it was given
InputModified ==
    /\ ParseFailed
    /\ gop.before.energy = None
    /\ gobjs[gop.a].energy # None

\* the pointers of the evaluations made so far
Pointers == {AUTO_LOGNAME(n) : n \in 0..(gevals - 1)}

\* C30: NullState holds no stdout, identifier, energy or order in any
\* reachable state; a failure result that carries an output pointer is an
\* object created by that evaluation, never NullState; no two objects that
\* are null sentinels carry the pointer of the same evaluation; and no call
\* changes an object that is a null sentinel.
C30_NullStateIntact ==
    /\ [](/\ gobjs[1] = new_nullstate
          /\ ParseFailed =>
                /\ gop.result # 1
                /\ gop.result = Len(gobjs)
                /\ gobjs[gop.result].stdout = Some(AUTO_LOGNAME(gevals - 1))
          /\ \A k \in Refs, l \in Refs :
                (/\ k # l /\ IsNullSentinel(gobjs[k]) /\ IsNullSentinel(gobjs[l])
                 /\ gobjs[k].stdout # None
                 /\ gobjs[k].stdout[1] \in Pointers)
                    => gobjs[l].stdout # gobjs[k].stdout)
    /\ [][\A k \in Refs : IsNullSentinel(gobjs[k]) => gobjs'[k] = gobjs[k]]_vars

\* C30 witness: two evaluations have failed, each result carries its own
\* pointer, and an identifier assignment was called on NullState
C30_Witness ==
    /\ gevals = 2
    /\ Len(gobjs) = 4
    /\ IsNullSentinel(gobjs[3]) /\ gobjs[3].stdout = Some(AUTO_LOGNAME(0))
    /\ IsNullSentinel(gobjs[4]) /\ gobjs[4].stdout = Some(AUTO_LOGNAME(1))
    /\ Assigning /\ gop.a = 1

\* -------------------------------------------------- geometry: extended XYZ
\* Here positions and forces are in units of 1e-9 (Angstrom, eV/Angstrom),
\* below the eight decimals the atom lines are written with; the cell is a
\* 3 x 3 matrix, a sequence of rows; the forces of an atom are <<>> when
\* they are NaN.  A label is None or Some(value); order maps tags to values,
\* as a set of <<tag, value>>, a tag being the sequence of the pieces of its
\* name ("order_" is one piece).

\* Geometry.__init__ with every field
FullGeometry(numbers, positions, forces, cell, labels, order) ==
    [numbers |-> numbers, positions |-> positions, forces |-> forces,
     cell |-> cell, labels |-> labels, order |-> order]

LabelKeys == {"energy", "stress", "delta", "phase", "logprob", "stdout",
              "identifier"}

Zeros == << <<0, 0, 0>>, <<0, 0, 0>>, <<0, 0, 0>> >>
\* Geometry.periodic on a 3 x 3 cell: np.any(self.cell)
any_cell(cell) == \E i \in 1..3 : \E j \in 1..3 : cell[i][j] # 0

\* ase.data.chemical_symbols, its first entries; index is list.index
chemical_symbols == <<"X", "H", "He", "Li", "Be", "B", "C", "N", "O">>
index(symbol) ==
    (CHOOSE k \in DOMAIN chemical_symbols : chemical_symbols[k] = symbol) - 1

\* "%16.8f" and float() back: the value to eight decimals, that is to the
\* nearest ten units
fmt8(x) == IF x < 0 THEN 0 - (((0 - x) + 5) \div 10) * 10
           ELSE ((x + 5) \div 10) * 10

\* np.transpose of a 3 x 3 matrix
T(mat) == [i \in 1..3 |-> [j \in 1..3 |-> mat[j][i]]]
\* np.reshape(mat, 9, order="F") and np.reshape(flat, (3, 3), order="F")
flatten_F(mat) == [k \in 1..9 |-> mat[((k - 1) % 3) + 1][((k - 1) \div 3) + 1]]
reshape_F(flat) == [i \in 1..3 |-> [j \in 1..3 |-> flat[i + 3 * (j - 1)]]]

\* key_val_dict_to_str on one value: the tokens written for it; a 3 x 3
\* array is flattened column by column, a scalar is one token
tokens(key, value) ==
    IF key \in {"stress"} THEN flatten_F(value)
    ELSE IF key \in {"logprob"} THEN value
    ELSE <<value>>
\* key_val_str_to_dict_regex on the tokens of one key: nine tokens of
\* Lattice or stress become a 3 x 3 array, one token a scalar
value_of(key, toks) ==
    IF key \in {"Lattice", "stress"} THEN reshape_F(toks)
    ELSE IF Len(toks) = 1 THEN toks[1]
    ELSE toks

\* np.any(np.isnan(self.per_atom.forces))
any_nan(forces) == \E i \in DOMAIN forces : forces[i] = <<>>

\* to_string: write_forces
write_forces(forces) == ~any_nan(forces)

\* Geometry.to_string: the number of atoms, the comment line by key (Lattice
\* is absent for a geometry without cell), then one line per atom
to_string(g) ==
    LET wf == write_forces(g.forces)
        present == {key \in LabelKeys : g.labels[key] # None}
    IN  [natoms |-> Len(g.numbers),
         Lattice |-> IF any_cell(g.cell) THEN Some(flatten_F(T(g.cell)))
                     ELSE None,
         pbc |-> IF any_cell(g.cell) THEN "T T T" ELSE "F F F",
         Properties |-> IF wf THEN "species:S:1:pos:R:3:forces:R:3"
                        ELSE "species:S:1:pos:R:3",
         values |-> [key \in present |-> tokens(key, g.labels[key][1])],
         order |-> {<< <<"order_">> \o kv[1], kv[2] >> : kv \in g.order},
         lines |-> [i \in 1..Len(g.numbers) |->
                      [symbol |-> chemical_symbols[g.numbers[i] + 1],
                       values |-> [c \in 1..3 |-> fmt8(g.positions[i][c])]
                            \o (IF wf THEN [c \in 1..3 |-> fmt8(g.forces[i][c])]
                                ELSE <<>>)]]]

\* key.replace("order_", ""): every piece "order_" goes
replace_order(key) == SelectSeq(key, LAMBDA piece : piece # "order_")

\* Geometry.from_string(s): the text is never empty here and natoms is read
\* from its first line
from_string(s) ==
    LET natoms == s.natoms
        forces(i) == IF Len(s.lines[i].values) > 3
                     THEN SubSeq(s.lines[i].values, 4, 6) ELSE <<>>
        tags == {kv \in s.order : kv[1][1] = "order_"}
    IN  FullGeometry(
            [i \in 1..natoms |-> index(s.lines[i].symbol)],
            [i \in 1..natoms |-> SubSeq(s.lines[i].values, 1, 3)],
            [i \in 1..natoms |-> forces(i)],
            IF s.Lattice = None THEN T(Zeros)
            ELSE T(value_of("Lattice", s.Lattice[1])),
            [key \in LabelKeys |->
                IF key \in DOMAIN s.values
                THEN Some(value_of(key, s.values[key])) ELSE None],
            {<<replace_order(kv[1]), kv[2]>> : kv \in tags})


\* ---------------------------------------------- extended XYZ: round trip
NoLabels == [key \in LabelKeys |-> None]
EnergyOnly == [NoLabels EXCEPT !["energy"] = Some(0 - 3)]
AllLabels ==
    [energy |-> Some(0 - 3),
     stress |-> Some(<< <<1, 2, 3>>, <<2, 4, 5>>, <<3, 5, 6>> >>),
     delta |-> Some(2), phase |-> Some("liquid"), logprob |-> Some(<<0 - 1, 0 - 7>>),
     stdout |-> Some("stdout.0"), identifier |-> Some(4)]
LabelChoices == {NoLabels, EnergyOnly, AllLabels}
OrderChoices == { {}, {<< <<"CV">>, 3 >>}, {<< <<"order_", "param">>, 1 >>} }

\* a triclinic cell
Triclinic == << <<5, 0, 0>>, <<1, 6, 0>>, <<0, 2, 7>> >>

\* the geometries written out: the null sentinel, an atom without cell on
\* the 1e-8 grid and off it, a dimer in a triclinic cell; without forces,
\* with forces on the grid and off it, and with forces on the first atom only
ForcesChoices(n) ==
    { [i \in 1..n |-> <<>>],
      [i \in 1..n |-> <<10 * i, 0 - 20, 0>>],
      [i \in 1..n |-> <<10 * i + 4, 0, 0>>],
      [i \in 1..n |-> IF i = 1 THEN <<10, 0, 0>> ELSE <<>>] }
Structures ==
    { [numbers |-> <<0>>, positions |-> << <<0, 0, 0>> >>, cell |-> Zeros],
      [numbers |-> <<1>>, positions |-> << <<1000000000, 0, 0 - 50>> >>,
       cell |-> Zeros],
      [numbers |-> <<8>>, positions |-> << <<12345679, 0, 0>> >>,
       cell |-> Zeros],
      [numbers |-> <<1, 1>>,
       positions |-> << <<0, 0, 0>>, <<740000000, 0, 0>> >>,
       cell |-> Triclinic] }
WrittenGeometries ==
    { FullGeometry(st.numbers, st.positions, f, st.cell, labels, order) :
        st \in Structures, f \in UNION {ForcesChoices(n) : n \in 1..2},
        labels \in LabelChoices, order \in OrderChoices }

\* s = g.to_string()
CallToString ==
    /\ spc = "made"
    /\ stext' = to_string(sgeom)
    /\ spc' = "written"
    /\ UNCHANGED <<sgeom, sread>>
    /\ UNCHANGED NotString

\* Geometry.from_string(s)
CallFromString ==
    /\ spc = "written"
    /\ sread' = from_string(stext)
    /\ spc' = "read"
    /\ UNCHANGED <<sgeom, stext>>
    /\ UNCHANGED NotString

InitString ==
    /\ sgeom \in {g \in WrittenGeometries : Len(g.forces) = Len(g.numbers)}
    /\ stext = <<>> /\ sread = <<>> /\ spc = "made"
    /\ IdleWalker /\ IdlePartition /\ IdleDataset /\ IdleEval /\ IdleAtomic /\ IdleBias /\ IdleQuench
    /\ IdleContent /\ IdleLearning /\ IdleTemplate /\ IdleGeometry

NextString == CallToString \/ CallFromString

SpecString == InitString /\ [][NextString]_vars

\* ---------------------------------------------------- extended XYZ: claims
\* Geometry.__eq__ of what was read and what was written: atol is 1e-8, ten
\* units
ReadEquals ==
    /\ Len(sread.numbers) = Len(sgeom.numbers)
    /\ any_cell(sread.cell) = any_cell(sgeom.cell)
    /\ sread.numbers = sgeom.numbers
    /\ allclose(sread.positions, sgeom.positions, 10)
    /\ sread.cell = sgeom.cell

\* C23: Geometry.from_string(g.to_string()) equals g and every field of it
\* holds the value it holds in g: numbers, positions, forces, cell, the
\* labels and the order tags.
C23_RoundTrip ==
    spc = "read" => ReadEquals /\ sread = sgeom

\* what the round trip keeps for every geometry: equality, numbers, cell
\* and labels, the positions to eight decimals
RoundTripKeeps ==
    spc = "read" =>
        /\ ReadEquals
        /\ sread.labels = sgeom.labels
        /\ \A i \in DOMAIN sgeom.positions : \A c \in 1..3 :
              sread.positions[i][c] = fmt8(sgeom.positions[i][c])
        /\ (~any_nan(sgeom.forces) /\ \A kv \in sgeom.order : Len(kv[1]) = 1)
              => /\ sread.order = sgeom.order
                 /\ \A i \in DOMAIN sgeom.forces : \A c \in 1..3 :
                       sread.forces[i][c] = fmt8(sgeom.forces[i][c])

\* ------------------------------------------------------- walker: values
\* Here every deferred value has resolved: a Walker holds its start and its
\* state as geometries.  A geometry is known by its name, its pbc and the
\* energy each hamiltonian component gives it; a hamiltonian is a mixture.
QGeometry(name, pbc, e1, e2) ==
    [name |-> name, pbc |-> pbc,
     energy |-> [h \in {Einstein1, Einstein2} |->
                    IF h = Einstein1 THEN e1 ELSE e2]]
Abox == QGeometry("A", TRUE, 5, 1)
Bbox == QGeometry("B", TRUE, 1, 5)
Cfree == QGeometry("C", FALSE, 0, 9)
Moved == QGeometry("M", TRUE, 7, 7)

\* the Datasets quench is called with
QuenchData == { <<Abox, Bbox>>, <<Bbox, Abox, Bbox>>, <<Abox, Bbox, Cfree>> }
\* the walkers constructed: (start, hamiltonian, coupling)
QuenchPool ==
    { <<Abox, <<Term(Einstein1, 2)>>, None>>,
      <<Abox, <<Term(Einstein2, 2)>>, None>>,
      <<Abox, <<Term(Einstein1, 1), Term(Einstein2, 2)>>, Some("c1")>>,
      <<Cfree, <<Term(Einstein1, 2)>>, None>> }

\* np.all(start.pbc)
all_pbc(g) == g.pbc

\* Walker(start, hamiltonian, state, ..., periodic, ..., coupling) before
\* __post_init__
QWalker(strt, hamiltonian, st, per, coupling) ==
    [BaseWalker EXCEPT !.hamiltonian = hamiltonian, !.periodic = per,
                       !.coupling = coupling]
        @@ [start |-> strt, state |-> st]

\* Walker.__post_init__: the assertion on periodic
post_init_raises(w) == all_pbc(w.start) # w.periodic

\* a multiply that replicates coupled walkers too
multiply_coupled(w, nreplicas) ==
    IF nreplicas > 0 /\ post_init_raises(w)
    THEN [raised |-> "AssertionError", walkers |-> <<>>]
    ELSE [raised |-> "", walkers |-> [k \in 1..nreplicas |-> w]]

\* Walker.multiply(nreplicas): every replica is constructed from the fields
\* of self, and its __post_init__ runs
multiply(w, nreplicas) ==
    IF w.coupling # None
    THEN [raised |-> "ValueError", walkers |-> <<>>]
    ELSE IF nreplicas > 0 /\ post_init_raises(w)
    THEN [raised |-> "AssertionError", walkers |-> <<>>]
    ELSE [raised |-> "", walkers |-> [k \in 1..nreplicas |-> w]]

\* np.sum(c.reshape(-1, 1) * energies, axis=0)[j]: the energy of geometry j,
\* energies[k][j] being the energy component k gives it
RECURSIVE weighted_energy(_, _, _, _)
weighted_energy(c, energies, j, k) ==
    IF k = 0 THEN 0
    ELSE c[k] * energies[k][j] + weighted_energy(c, energies, j, k - 1)

\* np.argmin over 1..n: the first position of the least value
argmin(energy, n) ==
    CHOOSE j \in 1..n :
        /\ \A l \in 1..n : energy[j] <= energy[l]
        /\ \A l \in 1..(j - 1) : energy[l] > energy[j]

\* a search that adds the component energies up without their coefficients
_get_minimum_energy_states_unweighted(coefficients, energies, n) ==
    [i \in 1..Len(coefficients) |->
        argmin([j \in 1..n |->
                  weighted_energy([k \in 1..Len(energies) |-> 2],
                                  energies, j, Len(energies))], n)]

\* _get_minimum_energy_states(coefficients, inputs): per row of
\* coefficients the index of the geometry of least energy; energies is what
\* is read from inputs, n the number of geometries
_get_minimum_energy_states(coefficients, energies, n) ==
    [i \in 1..Len(coefficients) |->
        argmin([j \in 1..n |->
                  weighted_energy(coefficients[i], energies, j,
                                  Len(energies))], n)]

\* quench(walkers, dataset): the walkers as the call leaves them
quench(ws, dataset) ==
    LET all_hamiltonians == sum_hamiltonians(ws, Len(ws))
        evaluated == [k \in 1..Len(all_hamiltonians) |->
                        [j \in 1..Len(dataset) |->
                            dataset[j].energy[all_hamiltonians[k].h]]]
        coefficients == [i \in 1..Len(ws) |->
                            get_coefficients(all_hamiltonians,
                                mixture_mul(ws[i].hamiltonian, 2))]
        indices == _get_minimum_energy_states(coefficients, evaluated,
                                              Len(dataset))
    IN  [i \in 1..Len(ws) |->
            [ws[i] EXCEPT !.start = dataset[indices[i]],
                          !.state = conditioned_reset(TRUE, ws[i].state,
                                                      dataset[indices[i]])]]

\* the call made last: its name, the walker it was called on (0: none), its
\* arguments as they were before the call, the walkers it returned and the
\* exception it raised
WalkerCall(name, self, arg, made, raised) ==
    [name |-> name, self |-> self, arg |-> arg, walkers |-> made,
     raised |-> raised]

\* Walker(start=strt, hamiltonian=h, periodic=per, coupling=coupling): state
\* is a copy of start
Construct(strt, h, per, coupling) ==
    /\ Len(qws) < MaxQuenched
    /\ LET w == QWalker(strt, h, strt, per, coupling) IN
        IF post_init_raises(w)
        THEN /\ qout' = WalkerCall("Walker", 0, <<strt.name, per>>, <<>>,
                                   "AssertionError")
             /\ UNCHANGED qws
        ELSE /\ qws' = Append(qws, w)
             /\ qout' = WalkerCall("Walker", Len(qws) + 1, <<strt.name, per>>,
                                   <<>>, "")
    /\ UNCHANGED qdata
    /\ UNCHANGED NotQuench

\* qws[i].update(output), output with state Moved and the given status
UpdateWalker(i, status) ==
    /\ qws' = [qws EXCEPT ![i].state =
                    update_walker(Moved, status, qws[i].start)]
    /\ qout' = WalkerCall("update", i, <<>>, <<>>, "")
    /\ UNCHANGED qdata
    /\ UNCHANGED NotQuench

\* qws[i].reset(condition)
ResetWalker(i, condition) ==
    /\ qws' = [qws EXCEPT ![i].state =
                    conditioned_reset(condition, qws[i].state, qws[i].start)]
    /\ qout' = WalkerCall("reset", i, <<>>, <<>>, "")
    /\ UNCHANGED qdata
    /\ UNCHANGED NotQuench

\* qws[i].multiply(nreplicas); the replicas are handed to the caller
Multiply(i, nreplicas) ==
    /\ LET r == multiply(qws[i], nreplicas) IN
        qout' = WalkerCall("multiply", i, nreplicas, r.walkers, r.raised)
    /\ UNCHANGED <<qws, qdata>>
    /\ UNCHANGED NotQuench

\* quench(qws, Dataset of qdata)
QuenchWalkers ==
    /\ Len(qws) > 0
    /\ qws' = quench(qws, qdata)
    /\ qout' = WalkerCall("quench", 0, <<qws, qdata>>, <<>>, "")
    /\ UNCHANGED qdata
    /\ UNCHANGED NotQuench

InitQuench ==
    /\ qws = <<>>
    /\ qdata \in QuenchData
    /\ qout = WalkerCall("none", 0, <<>>, <<>>, "")
    /\ IdleWalker /\ IdlePartition /\ IdleDataset /\ IdleEval /\ IdleAtomic /\ IdleBias
    /\ IdleContent /\ IdleLearning /\ IdleTemplate /\ IdleGeometry
    /\ IdleString

NextQuench ==
    \/ \E w \in QuenchPool, per \in BOOLEAN : Construct(w[1], w[2], per, w[3])
    \/ \E i \in DOMAIN qws, status \in Statuses : UpdateWalker(i, status)
    \/ \E i \in DOMAIN qws, condition \in BOOLEAN : ResetWalker(i, condition)
    \/ \E i \in DOMAIN qws, n \in 0..MaxReplicas : Multiply(i, n)
    \/ QuenchWalkers

SpecQuench == InitQuench /\ [][NextQuench]_vars

\* ------------------------------------------------ walker: values, claims
\* the energy the hamiltonian of walker w gives geometry g, in halves
RECURSIVE OwnEnergy(_, _, _)
OwnEnergy(w, g, k) ==
    IF k = 0 THEN 0
    ELSE w.hamiltonian[k].c * g.energy[w.hamiltonian[k].h]
            + OwnEnergy(w, g, k - 1)
Energy(w, g) == OwnEnergy(w, g, Len(w.hamiltonian))

\* C24: after quench(walkers, dataset) the start of every walker is a
\* geometry of the dataset to which the walker's own hamiltonian gives the
\* least energy, its state equals that start, and the dataset holds what it
\* held.
C24_Quench ==
    qout.name = "quench" =>
        LET before == qout.arg[1] IN
        /\ qdata = qout.arg[2]
        /\ Len(qws) = Len(before)
        /\ \A i \in DOMAIN qws :
              /\ \E j \in DOMAIN qdata : qws[i].start = qdata[j]
              /\ \A j \in DOMAIN qdata :
                    Energy(before[i], qws[i].start) <= Energy(before[i], qdata[j])
              /\ qws[i].state = qws[i].start
              /\ qws[i].hamiltonian = before[i].hamiltonian

\* C24 witness: two walkers with different hamiltonians were quenched
\* together, each to another geometry than it started from, and not the same
C24_Witness ==
    /\ qout.name = "quench"
    /\ Len(qws) = 2
    /\ qws[1].hamiltonian # qws[2].hamiltonian
    /\ qws[1].start = Bbox /\ qws[1].state = Bbox
    /\ qws[2].start = Abox /\ qws[2].state = Abox

\* C25: the periodic flag of every walker equals the periodicity of its
\* start geometry in every reachable state, and the construction of a walker
\* whose flag disagrees with its start fails with an AssertionError.
C25_Periodic ==
    /\ \A i \in DOMAIN qws : qws[i].periodic = all_pbc(qws[i].start)
    /\ (qout.name = "Walker" /\ qout.arg[2] # (qout.arg[1] # "C"))
            => qout.raised = "AssertionError" /\ qout.self = 0

\* a walker that was constructed periodic has a start without periodicity
StaleFlag ==
    \E i \in DOMAIN qws : qws[i].periodic /\ ~all_pbc(qws[i].start)

\* C26: multiply(n) on a walker with a coupling raises and returns no
\* replica; on a walker without coupling it returns n walkers that have the
\* start, state, hamiltonian, temperature, pressure, bead count,
\* periodicity and timestep of the walker and are similar to it; the walker
\* itself is as before.
C26_Multiply ==
    qout.name = "multiply" =>
        LET w == qws[qout.self] IN
        IF w.coupling # None
        THEN qout.raised = "ValueError" /\ qout.walkers = <<>>
        ELSE /\ qout.raised = ""
             /\ Len(qout.walkers) = qout.arg
             /\ \A k \in DOMAIN qout.walkers :
                  /\ qout.walkers[k] = w
                  /\ is_similar(qout.walkers[k], w)

\* multiply has failed on a walker without coupling
MultiplyFailed ==
    /\ qout.name = "multiply"
    /\ qws[qout.self].coupling = None
    /\ qout.raised = "AssertionError"

\* ------------------------------------------------------------ PLUMED bias
\* A PLUMED input is a sequence of lines; a line is known by its action
\* keyword and by the text after ARG=, a comma-separated list of CVs given
\* here as the sequence of their names.
PlumedLine(key, cv) == [key |-> key, cv |-> cv]
allowed_keywords == <<"METAD", "RESTRAINT", "EXTERNAL", "UPPER_WALLS">>
\* the lines an input is made of: bias actions on d, on e or on both, a
\* PRINT line and a line that defines units
PlumedLines ==
    { PlumedLine(allowed_keywords[k], cv) :
        k \in DOMAIN allowed_keywords, cv \in { <<"d">>, <<"e">>, <<"d", "e">> } }
    \cup { PlumedLine("PRINT", <<"d">>), PlumedLine("UNITS", <<>>) }
RECURSIVE PlumedInputs(_)
PlumedInputs(n) ==
    IF n = 0 THEN { <<>> }
    ELSE PlumedInputs(n - 1)
         \cup { Append(input, l) : input \in {i \in PlumedInputs(n - 1) : Len(i) = n - 1},
                                   l \in PlumedLines }

\* parse_plumed_input(plumed_input): per allowed keyword, in that order, one
\* (key, cv) for every line that holds the keyword
RECURSIVE parse_plumed_input(_, _)
parse_plumed_input(plumed_input, k) ==
    IF k = 0 THEN <<>>
    ELSE LET key == allowed_keywords[k]
             lines == SelectSeq(plumed_input, LAMBDA l : l.key = key)
         IN  parse_plumed_input(plumed_input, k - 1)
                \o [i \in 1..Len(lines) |-> <<key, lines[i].cv>>]

\* PlumedBias.keys without the assertion
keys_raises_never(components) == FALSE
\* PlumedBias.keys: the assertion that the keys are unique
keys_raises(components) ==
    \E i \in DOMAIN components : \E j \in DOMAIN components :
        i # j /\ components[i][1] = components[j][1]

\* PlumedBias.keys: sorted, METAD first
keys(components) ==
    LET present == {components[i][1] : i \in DOMAIN components}
        order == <<"METAD", "EXTERNAL", "RESTRAINT", "UPPER_WALLS">>
    IN  SelectSeq(order, LAMBDA key : key \in present)

\* PlumedBias.__init__(context, plumed_input, data): the exception raised,
\* or the components, the CV and the keys of the data futures
PlumedBias(plumed_input, data) ==
    LET components == parse_plumed_input(plumed_input, Len(allowed_keywords))
        failed == [raised |-> "AssertionError"]
    IN  IF \E i \in DOMAIN plumed_input : plumed_input[i].key = "PRINT"
        THEN failed
        ELSE IF Len(components) = 0 THEN failed
        ELSE IF \E i \in DOMAIN components : Len(components[i][2]) > 1
        THEN failed
        ELSE IF Cardinality({components[i][2] : i \in DOMAIN components}) # 1
        THEN failed
        ELSE IF keys_raises(components) THEN failed
        ELSE IF \E key \in data :
                    \A i \in DOMAIN keys(components) : keys(components)[i] # key
        THEN failed
        ELSE IF "EXTERNAL" \in {components[i][1] : i \in DOMAIN components}
                /\ "EXTERNAL" \notin data
        THEN failed
        ELSE [raised |-> "", components |-> components,
              cv |-> components[1][2], data_futures |-> keys(components)]

\* PlumedBias(context, binput, data) is called
ConstructBias ==
    /\ bout = <<>>
    /\ bout' = PlumedBias(binput, bdata)
    /\ UNCHANGED <<binput, bdata, btasks>>
    /\ UNCHANGED NotBias

\* bias.evaluate(dataset): one app is submitted on the bias that was made
EvaluateBias ==
    /\ bout # <<>>
    /\ bout.raised = ""
    /\ btasks = <<>>
    /\ btasks' = Append(btasks, "evaluate")
    /\ UNCHANGED <<binput, bdata, bout>>
    /\ UNCHANGED NotBias

InitBias ==
    /\ binput \in PlumedInputs(MaxLines)
    /\ bdata \in SUBSET {"EXTERNAL", "METAD"}
    /\ bout = <<>>
    /\ btasks = <<>>
    /\ IdleWalker /\ IdlePartition /\ IdleDataset /\ IdleEval /\ IdleAtomic
    /\ IdleContent /\ IdleLearning /\ IdleTemplate /\ IdleGeometry
    /\ IdleString /\ IdleQuench

NextBias == ConstructBias \/ EvaluateBias

SpecBias == InitBias /\ [][NextBias]_vars

\* ---------------------------------------------------- PLUMED bias: claims
BiasLines == {i \in DOMAIN binput :
                \E k \in DOMAIN allowed_keywords : binput[i].key = allowed_keywords[k]}
\* the input is one the claim says is refused
Refused ==
    \/ \E i \in DOMAIN binput : binput[i].key = "PRINT"
    \/ BiasLines = {}
    \/ \E i \in BiasLines : Len(binput[i].cv) > 1
    \/ \E i \in BiasLines, j \in BiasLines : binput[i].cv # binput[j].cv
    \/ \E i \in BiasLines, j \in BiasLines : i # j /\ binput[i].key = binput[j].key
    \/ (\E i \in BiasLines : binput[i].key = "EXTERNAL") /\ "EXTERNAL" \notin bdata

\* C28: the construction of a PlumedBias fails with an AssertionError, and
\* no task is ever submitted, when the input holds PRINT, holds no bias
\* component, has a component on more than one CV, has components on
\* different CVs, holds a keyword twice, or has an EXTERNAL component and no
\* data for it.
C28_BiasRefused ==
    Refused => /\ btasks = <<>>
               /\ bout # <<>> => bout.raised = "AssertionError"

\* C28 witness: two METAD components on the same CV were refused
C28_Witness ==
    /\ bout # <<>> /\ bout.raised = "AssertionError"
    /\ Len(binput) = 2
    /\ binput[1] = PlumedLine("METAD", <<"d">>)
    /\ binput[2] = PlumedLine("METAD", <<"d">>)
    /\ bdata = {}

====
